---- MODULE Spec2Model ----
(***************************************************************************)
(* Hybrid vector search manager of capstone-blender: the cost monitor,     *)
(* the FAISS store (Backend A, local), the Qdrant store (Backend B,        *)
(* remote) and the HybridVectorManager that dispatches between them.       *)
(*                                                                         *)
(* Money is counted in units of 1e-7 USD so that the per-operation prices  *)
(* of cost_monitor.py are integers; thresholds are counted in tenths.      *)
(* Wall-clock time enters only through the seconds elapsed since the       *)
(* metrics were last saved, which each tracked event draws from Elapsed.   *)
(***************************************************************************)
EXTENDS Integers, Sequences, FiniteSets, TLC

\* ---------------------------------------------------------------- bounds
MaxBatch == 1
MaxVectors == 1
MaxSearchCalls == 2
StoreMaxVectors == 3
MaxTasks == 2
MaxCallbacks == 2
MaxCount == 1
MaxEvents == 2
MaxSaved == 2
MaxMixed == 2

\* ------------------------------------------------------------- constants
FAISS == "faiss"
QDRANT == "qdrant"
Backends == {FAISS, QDRANT}

NoReason == "None"
COST_THRESHOLD == "cost_threshold_exceeded"
QDRANT_UNAVAILABLE == "qdrant_unavailable"
PERFORMANCE_ISSUES == "performance_issues"
MANUAL_OVERRIDE == "manual_override"
FallbackReason == {COST_THRESHOLD, QDRANT_UNAVAILABLE, PERFORMANCE_ISSUES, MANUAL_OVERRIDE}

SEARCH == "search"
INSERT == "insert"
UPDATE == "update"
STORAGE == "storage"
CostEvent == {SEARCH, INSERT, UPDATE, STORAGE}

SearchCostPerOp == 4
InsertCostPerOp == 20
StorageCostPerGB == 2500000
SecondsInMonth == 2592000
MinWindow == 3600

\* seconds since the metrics were last saved: half an hour, two hours
Elapsed == {1800, 7200}

Absent == "absent"
DocIds == {"d1", "d2"}
Names == {"n1", "n2"}
Docs == [id : DocIds, full_name : Names]
Batches == UNION {[1..n -> Docs] : n \in 0..MaxBatch}

\* the batches the manager is driven with: what the manager does with a
\* batch depends on its length only
ManagerDocs == {[id |-> "d1", full_name |-> "n1"]}
ManagerBatches == UNION {[1..n -> ManagerDocs] : n \in 0..MaxBatch}

Reasons == {MANUAL_OVERRIDE, "demo_test"}

\* max_monthly_cost in 1e-7 USD, the two ratios in tenths
ThresholdConfigs == {[max_monthly_cost |-> 10000, warning_threshold |-> 8, fallback_threshold |-> 9]}

\* a configuration with max_monthly_cost: 0
ZeroBudget == [max_monthly_cost |-> 0, warning_threshold |-> 8, fallback_threshold |-> 9]

FaultThresholds == ThresholdConfigs \cup {ZeroBudget}

\* the configurations the manager is constructed from
Configs ==
    {[qdrant_store |-> "QdrantStore", auto_sync |-> TRUE],
     [qdrant_store |-> "none", auto_sync |-> TRUE]}

FreshMetrics == [total_searches |-> 0, total_inserts |-> 0, total_updates |-> 0, storage_mb |-> 0, estimated_monthly_cost |-> 0]

\* what _load_metrics can return: no file, or the file of an earlier run
LoadedMetrics == {FreshMetrics, [FreshMetrics EXCEPT !.total_searches = 4, !.estimated_monthly_cost = 11520]}

\* the callbacks HybridVectorManager.__init__ registers
ManagerCallbacks == [warning |-> <<"_on_cost_warning">>, fallback |-> <<"_on_cost_fallback">>]

VARIABLES
    qdrant_store,        \* "QdrantStore", or "none" after ImportError
    auto_sync,           \* config['auto_sync']
    thresholds,          \* CostMonitor.thresholds
    active_backend,      \* HybridVectorManager.active_backend
    fallback_reason,     \* HybridVectorManager.fallback_reason
    performance_metrics, \* search_count per backend
    metrics,             \* CostMonitor.metrics
    faiss,               \* FAISSStore fields
    qdrant,              \* QdrantStore fields and the remote collection
    calls,               \* search and hybrid_search calls made so far
    last,                \* the last manager call: its inputs and its outcome
    metrics_file,        \* the JSON document at CostMonitor.metrics_file
    callbacks,           \* CostMonitor.warning_callbacks and fallback_callbacks
    tasks,               \* the calls in flight, one per concurrent caller
    index_files          \* index.bin, metadata.json, mappings.pkl in index_path

vars == <<qdrant_store, auto_sync, thresholds, active_backend, fallback_reason,
          performance_metrics, metrics, faiss, qdrant, calls, last,
          metrics_file, callbacks, tasks, index_files>>

\* what the manager's constructor fixes: the stores, the settings and the
\* callbacks it registers with its cost monitor
configVars == <<qdrant_store, auto_sync, thresholds, callbacks>>

Max(a, b) == IF a >= b THEN a ELSE b

\* ------------------------------------------------------------ CostMonitor
UsageMultiplier(elapsed) ==
    IF elapsed > 0 THEN SecondsInMonth \div Max(elapsed, MinWindow) ELSE 1

UpdateEstimatedCost(m, elapsed) ==
    LET mult == UsageMultiplier(elapsed)
        search_cost == m.total_searches * mult * SearchCostPerOp
        insert_cost == m.total_inserts * mult * InsertCostPerOp
        storage_cost == (m.storage_mb \div 1024) * StorageCostPerGB
    IN [m EXCEPT !.estimated_monthly_cost = search_cost + insert_cost + storage_cost]

\* estimated_monthly_cost / max_monthly_cost raises ZeroDivisionError
RatioRaises(th) == th.max_monthly_cost = 0

\* cost_ratio >= threshold, with the threshold in tenths
RatioAtLeast(m, th, tenths) ==
    m.estimated_monthly_cost * 10 >= tenths * th.max_monthly_cost

\* a check that tests the warning threshold first
CheckThresholds_WarningFirst(m, th) ==
    IF RatioAtLeast(m, th, th.warning_threshold) THEN "warning"
    ELSE IF RatioAtLeast(m, th, th.fallback_threshold) THEN "fallback"
    ELSE "none"

\* _check_thresholds: which of _trigger_fallback, _trigger_warning runs
CheckThresholds(m, th) ==
    IF RatioAtLeast(m, th, th.fallback_threshold) THEN "fallback"
    ELSE IF RatioAtLeast(m, th, th.warning_threshold) THEN "warning"
    ELSE "none"

\* a count that overwrites the counter instead of adding to it
CountEvent_Assign(m, event, count, size_mb) ==
    CASE event = SEARCH -> [m EXCEPT !.total_searches = count]
      [] event = INSERT -> [m EXCEPT !.total_inserts = count]
      [] event = UPDATE -> [m EXCEPT !.total_updates = count]
      [] event = STORAGE -> [m EXCEPT !.storage_mb = size_mb]

\* the first lines of track_event
CountEvent(m, event, count, size_mb) ==
    CASE event = SEARCH -> [m EXCEPT !.total_searches = @ + count]
      [] event = INSERT -> [m EXCEPT !.total_inserts = @ + count]
      [] event = UPDATE -> [m EXCEPT !.total_updates = @ + count]
      [] event = STORAGE -> [m EXCEPT !.storage_mb = size_mb]

\* track_event: the new metrics and the callbacks _check_thresholds triggers;
\* raised: _check_thresholds raised, after the count and the estimate and
\* before any callback and the save
TrackEvent(m, th, event, count, size_mb, elapsed) ==
    LET m2 == UpdateEstimatedCost(CountEvent(m, event, count, size_mb), elapsed)
    IN [metrics |-> m2,
        signal |-> IF RatioRaises(th) THEN "none" ELSE CheckThresholds(m2, th),
        raised |-> RatioRaises(th)]

\* the metrics file: missing, unreadable, or a JSON document of CostMetrics
MetricKeys == {"total_searches", "total_inserts", "total_updates", "storage_mb", "estimated_monthly_cost"}

\* CostMetrics.to_dict and CostMetrics(**data)
ToDict(m) ==
    [k \in MetricKeys |->
        CASE k = "total_searches" -> m.total_searches
          [] k = "total_inserts" -> m.total_inserts
          [] k = "total_updates" -> m.total_updates
          [] k = "storage_mb" -> m.storage_mb
          [] k = "estimated_monthly_cost" -> m.estimated_monthly_cost]

FromDict(d) ==
    [total_searches |-> d["total_searches"], total_inserts |-> d["total_inserts"],
     total_updates |-> d["total_updates"], storage_mb |-> d["storage_mb"],
     estimated_monthly_cost |-> d["estimated_monthly_cost"]]

NoFile == [state |-> "missing", data |-> ToDict(FreshMetrics)]
UnreadableFile == [state |-> "unreadable", data |-> ToDict(FreshMetrics)]

\* how a _save_metrics can end: the document is written; open() fails and
\* the file stays as it was; open() truncates the file and the dump fails
SaveOutcomes == {"ok", "open_error", "write_error"}

\* _save_metrics: every failure is caught and logged
SaveMetrics(file, m, outcome) ==
    CASE outcome = "ok" -> [state |-> "ok", data |-> ToDict(m)]
      [] outcome = "open_error" -> file
      [] outcome = "write_error" -> UnreadableFile

\* _load_metrics: without a readable document the metrics start from zero
LoadMetrics(file) ==
    IF file.state = "ok" THEN FromDict(file.data) ELSE FreshMetrics

\* the metrics files the manager starts from
MetricsFiles ==
    {IF m = FreshMetrics THEN NoFile ELSE [state |-> "ok", data |-> ToDict(m)] :
        m \in LoadedMetrics}

\* the kinds of callback a caller registers: one that returns, one that raises
CallbackKinds == {"returns", "raises"}

\* a loop that lets the first exception of a callback leave the monitor
CallbackLoop_Propagate(cbs) ==
    [invoked |-> [k \in 1..Len(cbs) |->
                    IF \E j \in 1..(k - 1) : cbs[j] = "raises" THEN 0 ELSE 1],
     raised |-> \E j \in 1..Len(cbs) : cbs[j] = "raises"]

\* the loop of _trigger_warning and _trigger_fallback: each callback is
\* called inside its own try; invoked[k]: the calls made to callback k;
\* raised: an exception leaves the loop
CallbackLoop(cbs) ==
    [invoked |-> [k \in 1..Len(cbs) |-> 1], raised |-> FALSE]

NotInvoked(cbs) == [invoked |-> [k \in 1..Len(cbs) |-> 0], raised |-> FALSE]

\* track_event with its callbacks and its save: the new metrics, the calls
\* made to each callback, the file, and whether the call returned normally
TrackEventCall(m, th, cbs, file, event, count, size_mb, elapsed, save) ==
    LET t == TrackEvent(m, th, event, count, size_mb, elapsed)
        fb == IF t.signal = "fallback" THEN CallbackLoop(cbs.fallback)
              ELSE NotInvoked(cbs.fallback)
        wn == IF t.signal = "warning" THEN CallbackLoop(cbs.warning)
              ELSE NotInvoked(cbs.warning)
        escaped == t.raised \/ fb.raised \/ wn.raised
    IN [metrics |-> t.metrics,
        warning |-> wn.invoked,
        fallback |-> fb.invoked,
        file |-> IF escaped THEN file ELSE SaveMetrics(file, t.metrics, save),
        saved |-> ~escaped /\ save = "ok",
        returned |-> ~escaped]

\* ------------------------------------------------------------- FAISSStore
\* faiss_index holds one vector per add, the embedding of the document's
\* searchable text (its name); position p of the code is element p+1 here.
EmptyFaiss ==
    [initialized |-> FALSE,
     index |-> <<>>,
     metadata_store |-> [i \in DocIds |-> Absent],
     id_to_index |-> [i \in DocIds |-> -1],
     index_to_id |-> <<>>,
     api_names |-> <<>>,
     api_name_to_id |-> [n \in Names |-> Absent]]

\* the first loop of add_documents: metadata and name mappings, per document
RECURSIVE FaissStoreMetadata(_, _)
FaissStoreMetadata(st, documents) ==
    IF documents = <<>> THEN st
    ELSE LET doc == Head(documents)
             st1 == [st EXCEPT !.metadata_store[doc.id] = doc.full_name,
                               !.api_names = Append(@, doc.full_name),
                               !.api_name_to_id[doc.full_name] = doc.id]
         IN FaissStoreMetadata(st1, Tail(documents))

\* faiss_index.add and the second loop: vectors and id mappings
RECURSIVE FaissAddVectors(_, _)
FaissAddVectors(st, documents) ==
    IF documents = <<>> THEN st
    ELSE LET doc == Head(documents)
             index_pos == Len(st.index)
             st1 == [st EXCEPT !.index = Append(@, doc.full_name),
                               !.id_to_index[doc.id] = index_pos,
                               !.index_to_id = Append(@, doc.id)]
         IN FaissAddVectors(st1, Tail(documents))

\* The three files of index_path, each missing, unreadable, or holding what
\* _save_index wrote: the index, the metadata store, the four mappings.
NoIndexFiles ==
    [index |-> [state |-> "missing", data |-> <<>>],
     metadata |-> [state |-> "missing", data |-> EmptyFaiss.metadata_store],
     mappings |-> [state |-> "missing",
                   data |-> [id_to_index |-> EmptyFaiss.id_to_index,
                             index_to_id |-> <<>>,
                             api_names |-> <<>>,
                             api_name_to_id |-> EmptyFaiss.api_name_to_id]]]

Unreadable(file) == [file EXCEPT !.state = "unreadable"]

\* how _save_index ends: all three files written, or an exception at the
\* first, second or third of them, caught and printed. The file on which
\* the write fails is left unreadable; write_index failing writes nothing.
IndexSaveOutcomes == {"ok", "index_error", "metadata_error", "mappings_error"}

\* _save_index
SaveIndex(files, st, outcome) ==
    LET index_file == [state |-> "ok", data |-> st.index]
        metadata_file == [state |-> "ok", data |-> st.metadata_store]
        mappings_file == [state |-> "ok",
                          data |-> [id_to_index |-> st.id_to_index,
                                    index_to_id |-> st.index_to_id,
                                    api_names |-> st.api_names,
                                    api_name_to_id |-> st.api_name_to_id]]
    IN CASE outcome = "ok" ->
                [index |-> index_file, metadata |-> metadata_file, mappings |-> mappings_file]
         [] outcome = "index_error" -> files
         [] outcome = "metadata_error" ->
                [files EXCEPT !.index = index_file, !.metadata = Unreadable(@)]
         [] outcome = "mappings_error" ->
                [files EXCEPT !.index = index_file, !.metadata = metadata_file,
                              !.mappings = Unreadable(@)]

\* _load_existing_index: nothing is read unless the three files exist; then
\* each file read is assigned before the next one is opened, and an
\* unreadable file ends the load with what was assigned so far
LoadExistingIndex(st, files) ==
    IF "missing" \in {files.index.state, files.metadata.state, files.mappings.state}
    THEN [store |-> st, loaded |-> FALSE]
    ELSE IF files.index.state # "ok" THEN [store |-> st, loaded |-> FALSE]
    ELSE LET st1 == [st EXCEPT !.index = files.index.data]
         IN IF files.metadata.state # "ok" THEN [store |-> st1, loaded |-> FALSE]
            ELSE LET st2 == [st1 EXCEPT !.metadata_store = files.metadata.data]
                 IN IF files.mappings.state # "ok" THEN [store |-> st2, loaded |-> FALSE]
                    ELSE [store |-> [st2 EXCEPT
                                       !.id_to_index = files.mappings.data.id_to_index,
                                       !.index_to_id = files.mappings.data.index_to_id,
                                       !.api_names = files.mappings.data.api_names,
                                       !.api_name_to_id = files.mappings.data.api_name_to_id],
                          loaded |-> TRUE]

\* FAISSStore.initialize: the model loads (ok) and the index is loaded from
\* the files or, failing that, created empty
FaissInitialize(st, files, ok) ==
    IF ~ok THEN [store |-> st, ok |-> FALSE]
    ELSE LET load == LoadExistingIndex(st, files)
         IN [store |-> IF load.loaded THEN [load.store EXCEPT !.initialized = TRUE]
                       ELSE [load.store EXCEPT !.initialized = TRUE, !.index = <<>>],
             ok |-> TRUE]

\* FAISSStore.add_documents; encode raises while the model is not loaded
FaissAddDocuments(st, documents) ==
    IF documents = <<>> THEN [store |-> st, ok |-> TRUE]
    ELSE LET st1 == FaissStoreMetadata(st, documents)
         IN IF ~st.initialized THEN [store |-> st1, ok |-> FALSE]
            ELSE [store |-> FaissAddVectors(st1, documents), ok |-> TRUE]

\* FAISSStore.search without filters and with top_k above ntotal: the ids of
\* the vectors found, in index order (the ranking is the embedding's)
FaissSearch(st) ==
    IF ~st.initialized THEN <<>>
    ELSE SelectSeq(st.index_to_id, LAMBDA i : st.metadata_store[i] # Absent)

FaissTotalVectors(st) == Len(st.index)

\* the files after add_documents: _save_index runs once the batch is in
\* the index, and not for an empty batch or after encode raised
FaissAddFiles(files, st, documents, outcome) ==
    IF documents # <<>> /\ FaissAddDocuments(st, documents).ok
    THEN SaveIndex(files, FaissAddDocuments(st, documents).store, outcome)
    ELSE files

\* ------------------------------------------------------------ QdrantStore
IdOrder == <<"d1", "d2">>

\* client: embeddings_model and client are set; collection_exists: the
\* collection has been created on the service
EmptyQdrant ==
    [client |-> FALSE,
     collection_exists |-> FALSE,
     collection |-> [i \in DocIds |-> Absent],
     api_names_cache |-> <<>>]

\* a client call on the collection goes through
QdrantUsable(st, up) == st.client /\ st.collection_exists /\ up

\* QdrantStore.initialize: the collection is ensured ("ok"), or the service
\* is not reached by _ensure_collection_exists ("network_error"), or the
\* model fails to load ("model_error")
QdrantInitialize(st, outcome) ==
    CASE outcome = "ok" -> [store |-> [st EXCEPT !.client = TRUE, !.collection_exists = TRUE], ok |-> TRUE]
      [] outcome = "network_error" -> [store |-> [st EXCEPT !.client = TRUE], ok |-> FALSE]
      [] outcome = "model_error" -> [store |-> st, ok |-> FALSE]

RECURSIVE QdrantUpsert(_, _)
QdrantUpsert(collection, documents) ==
    IF documents = <<>> THEN collection
    ELSE LET doc == Head(documents)
         IN QdrantUpsert([collection EXCEPT ![doc.id] = doc.full_name], Tail(documents))

QdrantIds(collection) == SelectSeq(IdOrder, LAMBDA i : collection[i] # Absent)

\* _update_api_names_cache: the names of the points the scroll returns
ScrollNames(collection) ==
    LET ids == QdrantIds(collection)
    IN [k \in 1..Len(ids) |-> collection[ids[k]]]

\* QdrantStore.add_documents; every failure is caught and reported as False
QdrantAddDocuments(st, documents, up) ==
    IF documents = <<>> THEN [store |-> st, ok |-> TRUE]
    ELSE IF ~QdrantUsable(st, up) THEN [store |-> st, ok |-> FALSE]
    ELSE LET c == QdrantUpsert(st.collection, documents)
         IN [store |-> [st EXCEPT !.collection = c, !.api_names_cache = ScrollNames(c)],
             ok |-> TRUE]

\* _update_api_names_cache: the scroll answers and the cache is replaced, or
\* it raises and the exception is swallowed with the cache left as it was
UpdateApiNamesCache(st, scroll_ok) ==
    IF scroll_ok THEN [st EXCEPT !.api_names_cache = ScrollNames(st.collection)] ELSE st

\* QdrantStore.add_documents with the outcome of its two requests told apart:
\* the upsert (up) and the scroll that follows it (scroll_ok).
\* QdrantAddDocuments above is the case where the scroll answers.
QdrantAddScrolled(st, documents, up, scroll_ok) ==
    IF documents = <<>> THEN [store |-> st, ok |-> TRUE]
    ELSE IF ~QdrantUsable(st, up) THEN [store |-> st, ok |-> FALSE]
    ELSE [store |-> UpdateApiNamesCache(
                        [st EXCEPT !.collection = QdrantUpsert(st.collection, documents)],
                        scroll_ok),
          ok |-> TRUE]

\* QdrantStore.search: a client error is caught and an empty list returned
QdrantSearch(st, up) ==
    IF ~QdrantUsable(st, up) THEN <<>> ELSE QdrantIds(st.collection)

QdrantTotalVectors(st) == Len(QdrantIds(st.collection))

\* health_check()['status'] == 'healthy': get_collections answers (get_stats
\* catches its own errors)
QdrantHealthy(st, up) == st.client /\ up

\* hybrid_search of either store: the semantic hits, one entry per id
RECURSIVE Dedupe(_)
Dedupe(ids) ==
    IF ids = <<>> THEN <<>>
    ELSE LET rest == Dedupe(Tail(ids))
         IN <<Head(ids)>> \o SelectSeq(rest, LAMBDA i : i # Head(ids))

FaissHybridSearch(st) == Dedupe(FaissSearch(st))
QdrantHybridSearch(st, up) == Dedupe(QdrantSearch(st, up))

\* ------------------------------------------------------- scored queries
\* Scores in thousandths, weights in tenths. The engines score a query
\* against the embedding of a document's text, here its name: an inner
\* product of unit vectors (Backend A) or a cosine similarity (Backend B,
\* Distance.COSINE), larger for a closer vector.
One == 1000
RawScores == {-100, 900}
Similarities == {s \in [Names -> RawScores] : s["n1"] # s["n2"]}

\* fuzz.token_set_ratio of the query and a name, 0..100; the query is the
\* name n1 or contains it
Ratios == {50, 100}
FuzzyRatios == {r \in [Names -> Ratios] : r["n1"] = 100}
FuzzyThreshold == 60

TopKs == {1, 2}
Weights ==
    {[semantic_weight |-> 7, fuzzy_weight |-> 3],
     [semantic_weight |-> 10, fuzzy_weight |-> 10]}

\* filters of one key: None, a value, or a list of values. The documents
\* carry 'id' and 'full_name'; the payload Backend B builds carries
\* 'full_name' and, among its defaults, 'module': ''.
NoFilters == [key |-> "none", is_list |-> FALSE, value |-> "", values |-> {}]
FilterSets ==
    {NoFilters,
     [key |-> "full_name", is_list |-> FALSE, value |-> "n1", values |-> {}],
     [key |-> "full_name", is_list |-> TRUE, value |-> "", values |-> {"n1", "n2"}],
     [key |-> "module", is_list |-> FALSE, value |-> "", values |-> {}]}

Min(a, b) == IF a <= b THEN a ELSE b

\* _normalize_score
NormalizeScore(score, backend) ==
    IF backend = FAISS THEN Max(0, Min(One, score))
    ELSE IF backend = QDRANT THEN Max(0, Min(One, One - score))
    ELSE score

\* list.sort(key=lambda x: x.score, reverse=True): descending and stable
RECURSIVE InsertByScore(_, _)
InsertByScore(r, sorted) ==
    IF sorted = <<>> THEN <<r>>
    ELSE IF Head(sorted).score >= r.score
         THEN <<Head(sorted)>> \o InsertByScore(r, Tail(sorted))
         ELSE <<r>> \o sorted

RECURSIVE SortByScore(_)
SortByScore(results) ==
    IF results = <<>> THEN <<>>
    ELSE InsertByScore(results[Len(results)],
                       SortByScore(SubSeq(results, 1, Len(results) - 1)))

\* results[:n]
Truncate(results, n) == SubSeq(results, 1, Min(n, Len(results)))

\* metadata[key] of a stored document, Absent for key not in metadata
FaissField(st, id, key) ==
    IF st.metadata_store[id] = Absent THEN Absent
    ELSE IF key = "full_name" THEN st.metadata_store[id]
    ELSE IF key = "id" THEN id
    ELSE Absent

\* payload[key] of a point
QdrantField(st, id, key) ==
    IF st.collection[id] = Absent THEN Absent
    ELSE IF key = "full_name" THEN st.collection[id]
    ELSE IF key = "module" THEN ""
    ELSE Absent

\* _apply_filters and _apply_payload_filters, on the field the filter names
ApplyFilters(field, filters) ==
    IF field = Absent THEN FALSE
    ELSE IF filters.is_list THEN field \in filters.values
    ELSE field = filters.value

\* _build_qdrant_filter: the conditions of Filter(must=...), one per listed
\* value; no condition gives None
BuildQdrantFilter(filters) ==
    IF filters.is_list THEN {[key |-> filters.key, value |-> v] : v \in filters.values}
    ELSE {[key |-> filters.key, value |-> filters.value]}

\* a point satisfies Filter(must=conditions): every condition matches
MustMatch(st, id, must) ==
    \A c \in must : QdrantField(st, id, c.key) = c.value

\* FAISSStore.search
FaissSearchResults(st, similarity, top_k, filters) ==
    IF ~st.initialized \/ Len(st.index) = 0 THEN <<>>
    ELSE LET vectors == [p \in 1..Len(st.index) |->
                            [pos |-> p, score |-> similarity[st.index[p]]]]
             found == Truncate(SortByScore(vectors), Min(top_k * 2, Len(st.index)))
             kept == SelectSeq(found, LAMBDA h :
                        /\ h.pos <= Len(st.index_to_id)
                        /\ st.metadata_store[st.index_to_id[h.pos]] # Absent
                        /\ \/ filters = NoFilters
                           \/ ApplyFilters(FaissField(st, st.index_to_id[h.pos], filters.key),
                                           filters))
             results == [k \in 1..Len(kept) |->
                            [id |-> st.index_to_id[kept[k].pos],
                             score |-> NormalizeScore(kept[k].score, FAISS)]]
         IN Truncate(SortByScore(results), top_k)

\* process.extract(query, names, limit=top_k): the best top_k entries of
\* the list, one per entry
Extract(names, ratio, top_k) ==
    Truncate(SortByScore([k \in 1..Len(names) |->
                             [name |-> names[k], score |-> ratio[names[k]]]]), top_k)

\* FAISSStore._fuzzy_search
FaissFuzzySearch(st, ratio, top_k, filters) ==
    LET matches == Extract(st.api_names, ratio, top_k)
        kept == SelectSeq(matches, LAMBDA m :
                    /\ m.score >= FuzzyThreshold
                    /\ st.api_name_to_id[m.name] # Absent
                    /\ st.metadata_store[st.api_name_to_id[m.name]] # Absent
                    /\ \/ filters = NoFilters
                       \/ ApplyFilters(FaissField(st, st.api_name_to_id[m.name], filters.key),
                                       filters))
    IN [k \in 1..Len(kept) |->
           [id |-> st.api_name_to_id[kept[k].name], score |-> kept[k].score * 10]]

\* _combine_results: result_map keeps the order of first insertion; a
\* semantic result replaces the entry of its id, a fuzzy result adds to it
RECURSIVE PutSemantic(_, _, _)
PutSemantic(result_map, results, semantic_weight) ==
    IF results = <<>> THEN result_map
    ELSE LET r == [id |-> Head(results).id,
                   score |-> (Head(results).score * semantic_weight) \div 10]
             at == {k \in 1..Len(result_map) : result_map[k].id = r.id}
             next == IF at = {} THEN Append(result_map, r)
                     ELSE [k \in 1..Len(result_map) |->
                              IF k \in at THEN r ELSE result_map[k]]
         IN PutSemantic(next, Tail(results), semantic_weight)

RECURSIVE PutFuzzy(_, _, _)
PutFuzzy(result_map, results, fuzzy_weight) ==
    IF results = <<>> THEN result_map
    ELSE LET r == Head(results)
             weighted == (r.score * fuzzy_weight) \div 10
             at == {k \in 1..Len(result_map) : result_map[k].id = r.id}
             next == IF at = {} THEN Append(result_map, [id |-> r.id, score |-> weighted])
                     ELSE [k \in 1..Len(result_map) |->
                              IF k \in at
                              THEN [result_map[k] EXCEPT !.score = @ + weighted]
                              ELSE result_map[k]]
         IN PutFuzzy(next, Tail(results), fuzzy_weight)

CombineResults(semantic_results, fuzzy_results, semantic_weight, fuzzy_weight) ==
    SortByScore(PutFuzzy(PutSemantic(<<>>, semantic_results, semantic_weight),
                         fuzzy_results, fuzzy_weight))

\* FAISSStore.hybrid_search
FaissHybridResults(st, similarity, ratio, weights, top_k, filters) ==
    Truncate(CombineResults(FaissSearchResults(st, similarity, top_k * 2, filters),
                            FaissFuzzySearch(st, ratio, top_k, filters),
                            weights.semantic_weight, weights.fuzzy_weight), top_k)

\* QdrantStore.search: the service ranks the points that satisfy the filter
\* by similarity and returns the first top_k; they are returned in that order
QdrantSearchResults(st, up, similarity, top_k, filters) ==
    IF ~QdrantUsable(st, up) THEN <<>>
    ELSE LET must == IF filters = NoFilters THEN {} ELSE BuildQdrantFilter(filters)
             ids == SelectSeq(QdrantIds(st.collection), LAMBDA i : MustMatch(st, i, must))
             points == [k \in 1..Len(ids) |->
                           [id |-> ids[k], score |-> similarity[st.collection[ids[k]]]]]
             found == Truncate(SortByScore(points), top_k)
         IN [k \in 1..Len(found) |->
                [id |-> found[k].id, score |-> NormalizeScore(found[k].score, QDRANT)]]

\* api_names_cache as _fuzzy_search uses it: an empty cache is filled first
FuzzyNames(st, up) ==
    IF st.api_names_cache = <<>> /\ QdrantUsable(st, up)
    THEN ScrollNames(st.collection)
    ELSE st.api_names_cache

\* QdrantStore._fuzzy_search: each matched name is looked up on the service
\* (limit=1); a lookup that raises skips the name
QdrantFuzzySearch(st, up, lookup, ratio, top_k, filters) ==
    LET matches == Extract(FuzzyNames(st, up), ratio, top_k)
        Hit(name) == LET ids == SelectSeq(QdrantIds(st.collection),
                                          LAMBDA i : st.collection[i] = name)
                     IN IF ids = <<>> THEN Absent ELSE Head(ids)
        kept == SelectSeq(matches, LAMBDA m :
                    /\ m.score >= FuzzyThreshold
                    /\ QdrantUsable(st, up) /\ lookup
                    /\ Hit(m.name) # Absent
                    /\ \/ filters = NoFilters
                       \/ ApplyFilters(QdrantField(st, Hit(m.name), filters.key), filters))
    IN [k \in 1..Len(kept) |-> [id |-> Hit(kept[k].name), score |-> kept[k].score * 10]]

\* QdrantStore.hybrid_search
QdrantHybridResults(st, up, lookup, similarity, ratio, weights, top_k, filters) ==
    Truncate(CombineResults(QdrantSearchResults(st, up, similarity, top_k * 2, filters),
                            QdrantFuzzySearch(st, up, lookup, ratio, top_k, filters),
                            weights.semantic_weight, weights.fuzzy_weight), top_k)

\* ---------------------------------------------------- HybridVectorManager
\* The record of the last call. start: active_backend when the call began;
\* documents: the batch of an add; raised: the dispatched store call raised;
\* a_raised: a Backend A call raised; b_ok: Backend B answered (its client
\* calls went through, its initialize returned True, it reports healthy);
\* retried: the except branch called Backend A; backend: the backend that
\* answered the search, received the batch, or was asked for; ret: the value
\* returned (for a search: some backend answered); m_raised: track_event
\* raised; signal: what _check_thresholds triggered; thrown: an exception
\* left the call; sync: the backend _sync_documents wrote to; sync_failed:
\* that write raised or returned False; status: the 'status' health_check
\* returned; a_healthy, b_healthy: the health_check of Backend A, Backend B
\* reports 'healthy' when called; save: how _save_index ended; query: the
\* arguments of a scored search; semantic, fuzzy: the two result lists a
\* hybrid_search combines; hits: the (id, score) list returned.
NoQuery ==
    [similarity |-> [n \in Names |-> 0], ratio |-> [n \in Names |-> 0], top_k |-> 0,
     weights |-> [semantic_weight |-> 0, fuzzy_weight |-> 0], filters |-> NoFilters]

NoCall ==
    [op |-> "none", start |-> FAISS, documents |-> <<>>, raised |-> FALSE,
     a_raised |-> FALSE, b_ok |-> FALSE, retried |-> FALSE, backend |-> "none",
     results |-> <<>>, ret |-> FALSE, m_raised |-> FALSE, signal |-> "none",
     thrown |-> FALSE, sync |-> "none", sync_failed |-> FALSE,
     status |-> "none", a_healthy |-> FALSE, b_healthy |-> FALSE, save |-> "none",
     query |-> NoQuery, semantic |-> <<>>, fuzzy |-> <<>>, hits |-> <<>>]

SearchOps == {"search", "hybrid_search"}
DispatchOps == {"search", "hybrid_search", "add_documents"}

\* The concurrent callers and the call each has in flight. pc: where the
\* call stands; kind: search or hybrid_search; start: active_backend when
\* the call began; store: the store _get_active_store handed it;
\* snapshot: the document its _save_metrics is writing; metered: the
\* searches of this caller that were tracked and have completed.
Tasks == 1..MaxTasks

IdleTask ==
    [pc |-> "idle", kind |-> "none", start |-> FAISS, store |-> FAISS,
     snapshot |-> ToDict(FreshMetrics), metered |-> 0]

NoTasks == [t \in Tasks |-> IdleTask]

\* a Qdrant choice that looks at availability only
ShouldUseQdrant_IgnoreCost(store, m, th) == store # "none"

\* _should_use_qdrant
ShouldUseQdrant(store, m, th) ==
    IF store = "none" THEN FALSE
    ELSE ~RatioAtLeast(m, th, th.fallback_threshold)

\* _get_active_store
GetActiveStore(backend, store) ==
    IF backend = QDRANT /\ store # "none" THEN QDRANT ELSE FAISS

\* a fallback callback that only logs
OnCostFallback_LogOnly(backend, reason) ==
    [active_backend |-> backend, fallback_reason |-> reason]

\* _on_cost_fallback
OnCostFallback(backend, reason) ==
    IF backend = QDRANT THEN [active_backend |-> FAISS, fallback_reason |-> COST_THRESHOLD]
    ELSE [active_backend |-> backend, fallback_reason |-> reason]

\* a cost tracking that meters every call, whatever backend is active
TrackIfQdrant_Always(backend, reason, m, th, event, count, elapsed) ==
    LET t == TrackEvent(m, th, event, count, 0, elapsed)
        cb == IF t.signal = "fallback" THEN OnCostFallback(backend, reason)
              ELSE [active_backend |-> backend, fallback_reason |-> reason]
    IN [metrics |-> t.metrics, signal |-> t.signal, raised |-> t.raised,
        active_backend |-> cb.active_backend, fallback_reason |-> cb.fallback_reason]

\* the track_event at the head of a dispatched call raises: it is called
\* while Qdrant is active and its _check_thresholds divides by zero
TrackRaises(backend, th) == backend = QDRANT /\ RatioRaises(th)

\* the cost tracking at the head of search, hybrid_search and add_documents:
\* the event is tracked only while Qdrant is active, and the fallback
\* callback runs inside track_event
TrackIfQdrant(backend, reason, m, th, event, count, elapsed) ==
    IF backend = QDRANT
    THEN LET t == TrackEvent(m, th, event, count, 0, elapsed)
             cb == IF t.signal = "fallback" THEN OnCostFallback(backend, reason)
                   ELSE [active_backend |-> backend, fallback_reason |-> reason]
         IN [metrics |-> t.metrics, signal |-> t.signal, raised |-> t.raised,
             active_backend |-> cb.active_backend, fallback_reason |-> cb.fallback_reason]
    ELSE [metrics |-> m, signal |-> "none", raised |-> FALSE,
          active_backend |-> backend, fallback_reason |-> reason]

\* _update_performance_metrics
UpdatePerformanceMetrics(pm, backend) == [pm EXCEPT ![backend] = @ + 1]

StoreSearch(kind, store, fst, qst, up) ==
    IF store = QDRANT
    THEN (IF kind = "search" THEN QdrantSearch(qst, up) ELSE QdrantHybridSearch(qst, up))
    ELSE (IF kind = "search" THEN FaissSearch(fst) ELSE FaissHybridSearch(fst))

\* an except branch that also demotes the manager to FAISS
SearchFallback_Demote(kind, backend, reason, pm, fst, raiseA) ==
    [active_backend |-> FAISS, fallback_reason |-> QDRANT_UNAVAILABLE,
     pm |-> IF raiseA THEN pm ELSE UpdatePerformanceMetrics(pm, FAISS),
     retried |-> backend = QDRANT, thrown |-> FALSE,
     backend |-> IF raiseA THEN "none" ELSE FAISS,
     results |-> IF raiseA THEN <<>> ELSE StoreSearch(kind, FAISS, fst, EmptyQdrant, FALSE)]

\* an except branch whose retry is not in a try of its own
SearchFallback_BareRetry(kind, backend, reason, pm, fst, raiseA) ==
    LET kept == [active_backend |-> backend, fallback_reason |-> reason]
    IN IF backend = QDRANT
       THEN IF raiseA
            THEN kept @@ [pm |-> pm, retried |-> TRUE, backend |-> "none", results |-> <<>>,
                          thrown |-> TRUE]
            ELSE kept @@ [pm |-> UpdatePerformanceMetrics(pm, FAISS), retried |-> TRUE,
                          backend |-> FAISS, thrown |-> FALSE,
                          results |-> StoreSearch(kind, FAISS, fst, EmptyQdrant, FALSE)]
       ELSE kept @@ [pm |-> pm, retried |-> FALSE, backend |-> "none", results |-> <<>>,
                     thrown |-> FALSE]

\* the except branch of search and hybrid_search: one retry on FAISS while
\* Qdrant is (still) the active backend; the branch assigns neither
\* active_backend nor fallback_reason; the retry has its own try, so that
\* nothing is thrown
SearchFallback(kind, backend, reason, pm, fst, raiseA) ==
    LET kept == [active_backend |-> backend, fallback_reason |-> reason]
    IN IF backend = QDRANT
       THEN IF raiseA
            THEN kept @@ [pm |-> pm, retried |-> TRUE, backend |-> "none", results |-> <<>>,
                          thrown |-> FALSE]
            ELSE kept @@ [pm |-> UpdatePerformanceMetrics(pm, FAISS), retried |-> TRUE,
                          backend |-> FAISS, thrown |-> FALSE,
                          results |-> StoreSearch(kind, FAISS, fst, EmptyQdrant, FALSE)]
       ELSE kept @@ [pm |-> pm, retried |-> FALSE, backend |-> "none", results |-> <<>>,
                     thrown |-> FALSE]

\* The inputs of a manager call. raiseB, raiseA: an exception leaves the
\* Backend B, Backend A method (a VectorStore whose method raises); up: the
\* remote service answers during the call; elapsed: seconds since the
\* metrics were saved. An input the call does not read is held at one value.
CallInputs == [raiseB : BOOLEAN, raiseA : BOOLEAN, up : BOOLEAN, elapsed : Elapsed]

SearchInputs(start, store) ==
    {i \in CallInputs :
        /\ (start # QDRANT => i.elapsed = 1800 /\ ~i.raiseB /\ i.up)
        /\ (start = QDRANT /\ ~RatioRaises(thresholds) =>
                (i.raiseB => i.up) /\ (~i.raiseB => ~i.raiseA))
        /\ (start = QDRANT /\ RatioRaises(thresholds) => ~i.raiseB /\ i.up)}

AddInputs(start, store, documents) ==
    {i \in CallInputs :
        /\ (start # QDRANT => i.elapsed = 1800)
        /\ (store = "none" \/ documents = <<>> => ~i.raiseB /\ i.up)
        /\ (i.raiseB => i.up)
        /\ (start # QDRANT /\ i.raiseA => ~i.raiseB /\ i.up)
        /\ (start = QDRANT /\ RatioRaises(thresholds) => ~i.raiseB /\ ~i.raiseA /\ i.up)}

\* search and hybrid_search
SearchCall(kind, in) ==
    /\ calls < MaxSearchCalls
    /\ LET start == active_backend
           store == GetActiveStore(start, qdrant_store)
           m_raised == TrackRaises(start, thresholds)
           store_raised == ~m_raised /\ (IF store = QDRANT THEN in.raiseB ELSE in.raiseA)
           raised == m_raised \/ store_raised
       IN \E t \in {TrackIfQdrant(start, fallback_reason, metrics, thresholds, SEARCH, 1,
                                  in.elapsed)} :
          \E fb \in {SearchFallback(kind, t.active_backend, t.fallback_reason,
                                   performance_metrics, faiss, in.raiseA)} :
          /\ metrics' = t.metrics
          /\ metrics_file' = IF start = QDRANT /\ ~m_raised
                              THEN SaveMetrics(metrics_file, t.metrics, "ok")
                              ELSE metrics_file
          /\ active_backend' = IF raised THEN fb.active_backend ELSE t.active_backend
          /\ fallback_reason' = IF raised THEN fb.fallback_reason ELSE t.fallback_reason
          /\ performance_metrics' =
                IF raised THEN fb.pm
                ELSE UpdatePerformanceMetrics(performance_metrics, t.active_backend)
          /\ last' = [NoCall EXCEPT
                      !.op = kind, !.start = start, !.raised = store_raised,
                      !.a_raised = in.raiseA,
                      !.b_ok = (store = QDRANT /\ ~raised /\ QdrantUsable(qdrant, in.up)),
                      !.retried = IF raised THEN fb.retried ELSE FALSE,
                      !.backend = IF raised THEN fb.backend ELSE store,
                      !.results = IF raised THEN fb.results
                                  ELSE StoreSearch(kind, store, faiss, qdrant, in.up),
                      !.ret = ~raised \/ fb.backend # "none",
                      !.m_raised = m_raised, !.signal = t.signal,
                      !.thrown = raised /\ fb.thrown]
    /\ calls' = calls + 1
    /\ UNCHANGED <<configVars, index_files, tasks, faiss, qdrant>>

Search == \E in \in SearchInputs(active_backend, qdrant_store) : SearchCall("search", in)

HybridSearch == \E in \in SearchInputs(active_backend, qdrant_store) : SearchCall("hybrid_search", in)

\* a sync whose store call is not in a try
SyncDocuments_NoTry(backend, store, fst, qst, documents, in) ==
    IF backend = QDRANT
    THEN [faiss |-> IF in.raiseA THEN fst ELSE FaissAddDocuments(fst, documents).store,
          qdrant |-> qst, target |-> FAISS,
          failed |-> in.raiseA \/ ~FaissAddDocuments(fst, documents).ok,
          raised |-> in.raiseA]
    ELSE IF backend = FAISS /\ store # "none"
    THEN [faiss |-> fst,
          qdrant |-> IF in.raiseB THEN qst ELSE QdrantAddDocuments(qst, documents, in.up).store,
          target |-> QDRANT,
          failed |-> in.raiseB \/ ~QdrantAddDocuments(qst, documents, in.up).ok,
          raised |-> in.raiseB]
    ELSE [faiss |-> fst, qdrant |-> qst, target |-> "none", failed |-> FALSE, raised |-> FALSE]

\* _sync_documents: writes to the store that is not active_backend. target:
\* the store written to; failed: the write raised or returned False;
\* raised: an exception leaves _sync_documents, which its try prevents
SyncDocuments(backend, store, fst, qst, documents, in) ==
    IF backend = QDRANT
    THEN [faiss |-> IF in.raiseA THEN fst ELSE FaissAddDocuments(fst, documents).store,
          qdrant |-> qst, target |-> FAISS,
          failed |-> in.raiseA \/ ~FaissAddDocuments(fst, documents).ok,
          raised |-> FALSE]
    ELSE IF backend = FAISS /\ store # "none"
    THEN [faiss |-> fst,
          qdrant |-> IF in.raiseB THEN qst ELSE QdrantAddDocuments(qst, documents, in.up).store,
          target |-> QDRANT,
          failed |-> in.raiseB \/ ~QdrantAddDocuments(qst, documents, in.up).ok,
          raised |-> FALSE]
    ELSE [faiss |-> fst, qdrant |-> qst, target |-> "none", failed |-> FALSE, raised |-> FALSE]

\* add_documents
AddDocumentsCall(documents, in) ==
    /\ Len(faiss.api_names) + Len(documents) <= MaxVectors
    /\ active_backend = QDRANT => metrics.total_inserts + Len(documents) <= MaxVectors
    /\ LET start == active_backend
           store == GetActiveStore(start, qdrant_store)
           m_raised == TrackRaises(start, thresholds)
           store_raised == ~m_raised /\ (IF store = QDRANT THEN in.raiseB ELSE in.raiseA)
           raised == m_raised \/ store_raised
       IN \E t \in {TrackIfQdrant(start, fallback_reason, metrics, thresholds, INSERT,
                                  Len(documents), in.elapsed)},
             fres \in {FaissAddDocuments(faiss, documents)},
             qres \in {QdrantAddDocuments(qdrant, documents, in.up)} :
          LET added == IF raised THEN FALSE ELSE IF store = QDRANT THEN qres.ok ELSE fres.ok
              fst == IF ~raised /\ store = FAISS THEN fres.store ELSE faiss
              qst == IF ~raised /\ store = QDRANT THEN qres.store ELSE qdrant
          IN \E sync \in {IF added /\ auto_sync
                          THEN SyncDocuments(t.active_backend, qdrant_store, fst, qst,
                                             documents, in)
                          ELSE [faiss |-> fst, qdrant |-> qst, target |-> "none",
                                failed |-> FALSE, raised |-> FALSE]} :
             /\ metrics' = t.metrics
             /\ metrics_file' = IF start = QDRANT /\ ~m_raised
                                 THEN SaveMetrics(metrics_file, t.metrics, "ok")
                                 ELSE metrics_file
             /\ active_backend' = t.active_backend
             /\ fallback_reason' = t.fallback_reason
             /\ faiss' = sync.faiss
             /\ qdrant' = sync.qdrant
             /\ index_files' =
                   LET files == IF ~raised /\ store = FAISS
                                THEN FaissAddFiles(index_files, faiss, documents, "ok")
                                ELSE index_files
                   IN IF sync.target = FAISS /\ ~in.raiseA
                      THEN FaissAddFiles(files, fst, documents, "ok")
                      ELSE files
             /\ last' = [NoCall EXCEPT
                         !.op = "add_documents", !.start = start, !.documents = documents,
                         !.raised = store_raised, !.a_raised = in.raiseA,
                         !.b_ok = (store = QDRANT /\ qres.ok),
                         !.backend = store, !.ret = added /\ ~sync.raised,
                         !.m_raised = m_raised, !.signal = t.signal,
                         !.sync = sync.target, !.sync_failed = sync.failed]
    /\ UNCHANGED <<configVars, tasks, performance_metrics, calls>>

AddDocuments ==
    \E documents \in ManagerBatches :
        \E in \in AddInputs(active_backend, qdrant_store, documents) :
            AddDocumentsCall(documents, in)

\* initialize. faiss_ok: FAISSStore.initialize loads its model; raiseB: the
\* Backend B initialize raises instead of returning False
InitializeCall(faiss_ok, qoutcome, raiseB) ==
    IF ~FaissInitialize(faiss, index_files, faiss_ok).ok
    THEN /\ last' = [NoCall EXCEPT !.op = "initialize", !.start = active_backend]
         /\ UNCHANGED <<configVars, index_files, tasks, active_backend, fallback_reason, performance_metrics,
                        metrics, metrics_file, faiss, qdrant, calls>>
    ELSE LET qres == QdrantInitialize(qdrant, qoutcome)
             qdrant_success == qdrant_store # "none" /\ ~raiseB /\ qres.ok
             ratio_raised == qdrant_success /\ RatioRaises(thresholds)
         IN /\ faiss' = FaissInitialize(faiss, index_files, faiss_ok).store
            /\ qdrant' = IF qdrant_store # "none" /\ ~raiseB THEN qres.store ELSE qdrant
            /\ IF qdrant_success /\ ~ratio_raised
               THEN /\ active_backend' = IF ShouldUseQdrant(qdrant_store, metrics, thresholds)
                                         THEN QDRANT ELSE FAISS
                    /\ fallback_reason' = fallback_reason
               ELSE /\ active_backend' = FAISS
                    /\ fallback_reason' = QDRANT_UNAVAILABLE
            /\ last' = [NoCall EXCEPT !.op = "initialize", !.start = active_backend,
                                      !.raised = (qdrant_store # "none" /\ raiseB),
                                      !.b_ok = qdrant_success,
                                      !.m_raised = ratio_raised,
                                      !.ret = TRUE]
            /\ UNCHANGED <<configVars, index_files, tasks, performance_metrics, metrics, metrics_file, calls>>

Initialize ==
    \E faiss_ok, raiseB \in BOOLEAN, qoutcome \in {"ok", "network_error", "model_error"} :
        /\ (~faiss_ok \/ qdrant_store = "none" => ~raiseB /\ qoutcome = "ok")
        /\ (raiseB => qoutcome = "ok")
        /\ InitializeCall(faiss_ok, qoutcome, raiseB)

\* force_backend. up: the remote service answers at the time of the call
ForceBackendCall(backend, reason, up) ==
    LET healthy == qdrant_store # "none" /\ QdrantHealthy(qdrant, up)
    IN IF backend = QDRANT /\ qdrant_store = "none"
       THEN /\ last' = [NoCall EXCEPT !.op = "force_backend", !.start = active_backend,
                                      !.backend = backend, !.b_ok = healthy]
            /\ UNCHANGED <<configVars, index_files, tasks, active_backend, fallback_reason, performance_metrics,
                           metrics, metrics_file, faiss, qdrant, calls>>
       ELSE /\ active_backend' = backend
            /\ fallback_reason' = IF reason = MANUAL_OVERRIDE THEN MANUAL_OVERRIDE ELSE NoReason
            /\ last' = [NoCall EXCEPT !.op = "force_backend", !.start = active_backend,
                                      !.backend = backend, !.b_ok = healthy, !.ret = TRUE]
            /\ UNCHANGED <<configVars, index_files, tasks, performance_metrics, metrics, metrics_file, faiss, qdrant, calls>>

ForceBackend == \E backend \in Backends, reason \in Reasons, up \in BOOLEAN :
    /\ (qdrant_store = "none" \/ backend = FAISS => up)
    /\ ForceBackendCall(backend, reason, up)

\* what the health_check of a store does: it returns a status, or raises
HealthOutcomes == {"healthy", "unhealthy", "raises"}

\* get_comprehensive_stats: the 'status' of faiss_health and qdrant_health;
\* both checks are in one try, so that a check that raises leaves its
\* entry, and the entries after it, missing
StoreHealth(store, fh, qh) ==
    IF fh = "raises" THEN [faiss |-> "missing", qdrant |-> "missing"]
    ELSE [faiss |-> fh,
          qdrant |-> IF store = "none" THEN "unavailable"
                     ELSE IF qh = "raises" THEN "missing" ELSE qh]

\* health_check: overall_status, 'error' when get_comprehensive_stats raises
\* (its get_cost_summary divides by max_monthly_cost)
OverallStatus(backend, th, stats) ==
    LET faiss_healthy == stats.faiss = "healthy"
        qdrant_healthy == stats.qdrant = "healthy"
    IN IF RatioRaises(th) THEN "error"
       ELSE IF backend = FAISS
       THEN (IF faiss_healthy THEN "healthy" ELSE "unhealthy")
       ELSE IF qdrant_healthy THEN "healthy"
       ELSE IF faiss_healthy THEN "degraded"
       ELSE "unhealthy"

\* health_check. fh: what the health_check of Backend A does; raiseB: the
\* one of Backend B raises; up: the remote service answers
HealthCheckCall(fh, raiseB, up) ==
    LET qh == IF raiseB THEN "raises"
              ELSE IF QdrantHealthy(qdrant, up) THEN "healthy" ELSE "unhealthy"
    IN /\ last' = [NoCall EXCEPT
                   !.op = "health_check", !.start = active_backend,
                   !.status = OverallStatus(active_backend, thresholds,
                                            StoreHealth(qdrant_store, fh, qh)),
                   !.a_healthy = (fh = "healthy"),
                   !.b_healthy = (qdrant_store # "none" /\ qh = "healthy"),
                   !.ret = TRUE]
       /\ UNCHANGED <<configVars, index_files, tasks, active_backend, fallback_reason,
                      performance_metrics, metrics, metrics_file, faiss, qdrant, calls>>

HealthCheck ==
    \E fh \in HealthOutcomes, raiseB, up \in BOOLEAN :
        /\ (qdrant_store = "none" => ~raiseB /\ up)
        /\ (raiseB => up)
        /\ HealthCheckCall(fh, raiseB, up)

\* the manager as constructed by __init__
Init ==
    /\ \E c \in Configs : qdrant_store = c.qdrant_store /\ auto_sync = c.auto_sync
    /\ thresholds \in ThresholdConfigs
    /\ active_backend = FAISS
    /\ fallback_reason = NoReason
    /\ performance_metrics = [b \in Backends |-> 0]
    /\ metrics_file \in MetricsFiles
    /\ metrics = LoadMetrics(metrics_file)
    /\ callbacks = ManagerCallbacks
    /\ tasks = NoTasks
    /\ faiss = EmptyFaiss
    /\ index_files = NoIndexFiles
    /\ qdrant = EmptyQdrant
    /\ calls = 0
    /\ last = NoCall

Next ==
    \/ Initialize
    \/ Search
    \/ HybridSearch
    \/ AddDocuments
    \/ ForceBackend

Spec == Init /\ [][Next]_vars

\* the manager with both stores, constructed on the metrics file of an
\* earlier run, on any budget: max_monthly_cost: 0 included, with which the
\* cost ratio cannot be computed
FaultInit ==
    /\ qdrant_store = "QdrantStore"
    /\ auto_sync = TRUE
    /\ thresholds \in FaultThresholds
    /\ active_backend = FAISS
    /\ fallback_reason = NoReason
    /\ performance_metrics = [b \in Backends |-> 0]
    /\ metrics_file = CHOOSE f \in MetricsFiles : f.state = "ok"
    /\ metrics = LoadMetrics(metrics_file)
    /\ callbacks = ManagerCallbacks
    /\ tasks = NoTasks
    /\ faiss = EmptyFaiss
    /\ index_files = NoIndexFiles
    /\ qdrant = EmptyQdrant
    /\ calls = 0
    /\ last = NoCall

FaultSpec == FaultInit /\ [][Next]_vars

\* the manager and its health: whatever initialize and force_backend made
\* of active_backend, on any budget
HealthInit ==
    /\ \E c \in Configs : qdrant_store = c.qdrant_store /\ auto_sync = c.auto_sync
    /\ thresholds \in FaultThresholds
    /\ active_backend = FAISS
    /\ fallback_reason = NoReason
    /\ performance_metrics = [b \in Backends |-> 0]
    /\ metrics_file \in MetricsFiles
    /\ metrics = LoadMetrics(metrics_file)
    /\ callbacks = ManagerCallbacks
    /\ tasks = NoTasks
    /\ faiss = EmptyFaiss
    /\ index_files = NoIndexFiles
    /\ qdrant = EmptyQdrant
    /\ calls = 0
    /\ last = NoCall

HealthNext ==
    \/ Initialize
    \/ ForceBackend
    \/ HealthCheck

HealthSpec == HealthInit /\ [][HealthNext]_vars

\* ------------------------------------------------ the stores on their own
\* The two stores driven directly through the VectorStore interface, with
\* batches over every document.
StoreFaissInitialize ==
    \E ok \in BOOLEAN :
        /\ faiss' = FaissInitialize(faiss, index_files, ok).store
        /\ last' = [NoCall EXCEPT !.op = "faiss.initialize", !.backend = FAISS, !.ret = ok]
        /\ UNCHANGED <<configVars, index_files, tasks, active_backend, fallback_reason, performance_metrics,
                       metrics, metrics_file, qdrant, calls>>

StoreQdrantInitialize ==
    \E outcome \in {"ok", "network_error", "model_error"} :
        /\ qdrant' = QdrantInitialize(qdrant, outcome).store
        /\ last' = [NoCall EXCEPT !.op = "qdrant.initialize", !.backend = QDRANT,
                                  !.ret = QdrantInitialize(qdrant, outcome).ok]
        /\ UNCHANGED <<configVars, index_files, tasks, active_backend, fallback_reason, performance_metrics,
                       metrics, metrics_file, faiss, calls>>

StoreFaissAdd ==
    \E documents \in Batches :
        /\ Len(faiss.api_names) + Len(documents) <= StoreMaxVectors
        /\ faiss' = FaissAddDocuments(faiss, documents).store
        /\ index_files' = FaissAddFiles(index_files, faiss, documents, "ok")
        /\ last' = [NoCall EXCEPT !.op = "faiss.add_documents", !.backend = FAISS,
                                  !.documents = documents,
                                  !.ret = FaissAddDocuments(faiss, documents).ok]
        /\ UNCHANGED <<configVars, tasks, active_backend, fallback_reason, performance_metrics,
                       metrics, metrics_file, qdrant, calls>>

StoreQdrantAdd ==
    \E documents \in Batches, up \in BOOLEAN :
        /\ qdrant' = QdrantAddDocuments(qdrant, documents, up).store
        /\ last' = [NoCall EXCEPT !.op = "qdrant.add_documents", !.backend = QDRANT,
                                  !.documents = documents,
                                  !.b_ok = QdrantUsable(qdrant, up),
                                  !.ret = QdrantAddDocuments(qdrant, documents, up).ok]
        /\ UNCHANGED <<configVars, index_files, tasks, active_backend, fallback_reason, performance_metrics,
                       metrics, metrics_file, faiss, calls>>

StoreInit ==
    /\ qdrant_store = "QdrantStore"
    /\ auto_sync = TRUE
    /\ thresholds \in ThresholdConfigs
    /\ active_backend = FAISS
    /\ fallback_reason = NoReason
    /\ performance_metrics = [b \in Backends |-> 0]
    /\ metrics = FreshMetrics
    /\ metrics_file = NoFile
    /\ callbacks = ManagerCallbacks
    /\ tasks = NoTasks
    /\ faiss = EmptyFaiss
    /\ index_files = NoIndexFiles
    /\ qdrant = EmptyQdrant
    /\ calls = 0
    /\ last = NoCall

StoreNext ==
    \/ StoreFaissInitialize
    \/ StoreQdrantInitialize
    \/ StoreFaissAdd
    \/ StoreQdrantAdd

StoreSpec == StoreInit /\ [][StoreNext]_vars

\* ------------------------------------------- Backend A and its directory
\* A FAISSStore on a disk that may fail, across restarts of the process.
DiskAdd ==
    \E documents \in Batches, outcome \in IndexSaveOutcomes :
        /\ Len(faiss.api_names) + Len(documents) <= MaxSaved
        /\ (documents = <<>> \/ ~faiss.initialized => outcome = "ok")
        /\ faiss' = FaissAddDocuments(faiss, documents).store
        /\ index_files' = FaissAddFiles(index_files, faiss, documents, outcome)
        /\ last' = [NoCall EXCEPT !.op = "faiss.add_documents", !.backend = FAISS,
                                  !.documents = documents, !.save = outcome,
                                  !.ret = FaissAddDocuments(faiss, documents).ok]
        /\ UNCHANGED <<configVars, tasks, active_backend, fallback_reason,
                       performance_metrics, metrics, metrics_file, qdrant, calls>>

\* the process ends; a new FAISSStore is constructed on the same index_path
\* and initialized
DiskRestart ==
    \E ok \in BOOLEAN :
        /\ faiss' = FaissInitialize(EmptyFaiss, index_files, ok).store
        /\ last' = [NoCall EXCEPT !.op = "faiss.initialize", !.backend = FAISS, !.ret = ok]
        /\ UNCHANGED <<configVars, index_files, tasks, active_backend, fallback_reason,
                       performance_metrics, metrics, metrics_file, qdrant, calls>>

DiskNext ==
    \/ DiskAdd
    \/ DiskRestart

DiskSpec == StoreInit /\ [][DiskNext]_vars

\* ------------------------------------------------- one store and its queries
\* The store the manager dispatches to (active_backend, fixed here), driven
\* with one-document batches and with scored search and hybrid_search.
QueryInitialize ==
    /\ \/ /\ active_backend = FAISS
          /\ \E ok \in BOOLEAN :
                /\ faiss' = FaissInitialize(faiss, index_files, ok).store
                /\ last' = [NoCall EXCEPT !.op = "store.initialize", !.backend = FAISS,
                                          !.ret = ok]
          /\ UNCHANGED qdrant
       \/ /\ active_backend = QDRANT
          /\ \E outcome \in {"ok", "network_error", "model_error"} :
                /\ qdrant' = QdrantInitialize(qdrant, outcome).store
                /\ last' = [NoCall EXCEPT !.op = "store.initialize", !.backend = QDRANT,
                                          !.ret = QdrantInitialize(qdrant, outcome).ok]
          /\ UNCHANGED faiss
    /\ UNCHANGED <<configVars, index_files, tasks, active_backend, fallback_reason,
                   performance_metrics, metrics, metrics_file, calls>>

QueryAdd ==
    \E doc \in Docs :
        /\ \/ /\ active_backend = FAISS
              /\ Len(faiss.api_names) + 1 <= MaxSaved
              /\ faiss' = FaissAddDocuments(faiss, <<doc>>).store
              /\ index_files' = FaissAddFiles(index_files, faiss, <<doc>>, "ok")
              /\ last' = [NoCall EXCEPT !.op = "store.add_documents", !.backend = FAISS,
                                        !.documents = <<doc>>,
                                        !.ret = FaissAddDocuments(faiss, <<doc>>).ok]
              /\ UNCHANGED qdrant
           \/ /\ active_backend = QDRANT
              /\ \E up \in BOOLEAN :
                    /\ qdrant' = QdrantAddDocuments(qdrant, <<doc>>, up).store
                    /\ last' = [NoCall EXCEPT
                                   !.op = "store.add_documents", !.backend = QDRANT,
                                   !.documents = <<doc>>,
                                   !.b_ok = QdrantUsable(qdrant, up),
                                   !.ret = QdrantAddDocuments(qdrant, <<doc>>, up).ok]
              /\ UNCHANGED <<faiss, index_files>>
        /\ UNCHANGED <<configVars, tasks, active_backend, fallback_reason,
                       performance_metrics, metrics, metrics_file, calls>>

\* store.search(query, top_k, filters)
QuerySearch ==
    \E similarity \in Similarities, top_k \in TopKs, filters \in FilterSets, up \in BOOLEAN :
        /\ active_backend = FAISS => up
        /\ last' = [NoCall EXCEPT
                       !.op = "store.search", !.backend = active_backend,
                       !.b_ok = active_backend = QDRANT /\ QdrantUsable(qdrant, up),
                       !.query = [NoQuery EXCEPT !.similarity = similarity,
                                                 !.top_k = top_k, !.filters = filters],
                       !.hits = IF active_backend = FAISS
                                THEN FaissSearchResults(faiss, similarity, top_k, filters)
                                ELSE QdrantSearchResults(qdrant, up, similarity, top_k, filters)]
        /\ UNCHANGED <<configVars, index_files, tasks, active_backend, fallback_reason,
                       performance_metrics, metrics, metrics_file, faiss, qdrant, calls>>

\* store.hybrid_search(query, semantic_weight, fuzzy_weight, top_k, filters)
QueryHybridSearch ==
    \E similarity \in Similarities, ratio \in FuzzyRatios, weights \in Weights,
       top_k \in TopKs, filters \in FilterSets, up \in BOOLEAN, lookup \in BOOLEAN :
        /\ active_backend = FAISS => up
        /\ (active_backend = FAISS \/ ~up) => lookup = up
        /\ qdrant' = IF active_backend = QDRANT
                     THEN [qdrant EXCEPT !.api_names_cache = FuzzyNames(qdrant, up)]
                     ELSE qdrant
        /\ last' = [NoCall EXCEPT
                       !.op = "store.hybrid_search", !.backend = active_backend,
                       !.b_ok = active_backend = QDRANT /\ QdrantUsable(qdrant, up),
                       !.query = [similarity |-> similarity, ratio |-> ratio,
                                  top_k |-> top_k, weights |-> weights, filters |-> filters],
                       !.semantic =
                           IF active_backend = FAISS
                           THEN FaissSearchResults(faiss, similarity, top_k * 2, filters)
                           ELSE QdrantSearchResults(qdrant, up, similarity, top_k * 2, filters),
                       !.fuzzy =
                           IF active_backend = FAISS
                           THEN FaissFuzzySearch(faiss, ratio, top_k, filters)
                           ELSE QdrantFuzzySearch(qdrant, up, lookup, ratio, top_k, filters),
                       !.hits =
                           IF active_backend = FAISS
                           THEN FaissHybridResults(faiss, similarity, ratio, weights,
                                                   top_k, filters)
                           ELSE QdrantHybridResults(qdrant, up, lookup, similarity, ratio,
                                                    weights, top_k, filters)]
        /\ UNCHANGED <<configVars, index_files, tasks, active_backend, fallback_reason,
                       performance_metrics, metrics, metrics_file, faiss, calls>>

QueryInit ==
    /\ qdrant_store = "QdrantStore"
    /\ auto_sync = TRUE
    /\ thresholds \in ThresholdConfigs
    /\ active_backend \in Backends
    /\ fallback_reason = NoReason
    /\ performance_metrics = [b \in Backends |-> 0]
    /\ metrics = FreshMetrics
    /\ metrics_file = NoFile
    /\ callbacks = ManagerCallbacks
    /\ tasks = NoTasks
    /\ faiss = EmptyFaiss
    /\ index_files = NoIndexFiles
    /\ qdrant = EmptyQdrant
    /\ calls = 0
    /\ last = NoCall

QueryNext ==
    \/ QueryInitialize
    \/ QueryAdd
    \/ QuerySearch
    \/ QueryHybridSearch

QuerySpec == QueryInit /\ [][QueryNext]_vars

\* ------------------------------------------- batches with a malformed document
\* Batches of up to MaxMixed documents in which a document may be malformed:
\* its 'tags' is not a list of strings, so that ' '.join(doc.get('tags', []))
\* raises when the loop of add_documents reaches it.
MixedDocs ==
    {[id |-> "d1", full_name |-> "n1", well_formed |-> TRUE],
     [id |-> "d2", full_name |-> "n2", well_formed |-> TRUE],
     [id |-> "d2", full_name |-> "n2", well_formed |-> FALSE]}
MixedBatches == UNION {[1..n -> MixedDocs] : n \in 0..MaxMixed}

\* the documents the loop handles before it raises
RECURSIVE BeforeMalformed(_)
BeforeMalformed(documents) ==
    IF documents = <<>> \/ ~Head(documents).well_formed THEN <<>>
    ELSE <<Head(documents)>> \o BeforeMalformed(Tail(documents))

\* FAISSStore.add_documents: the loop stores the metadata and the name of
\* each document it handles; the exception of a malformed one ends the call
\* before encode, and False is returned
FaissAddMixed(st, documents) ==
    IF BeforeMalformed(documents) = documents THEN FaissAddDocuments(st, documents)
    ELSE [store |-> FaissStoreMetadata(st, BeforeMalformed(documents)), ok |-> FALSE]

\* QdrantStore.add_documents: the points are built before the one upsert,
\* so the exception of a malformed document ends the call with nothing sent
QdrantAddMixed(st, documents, up) ==
    IF BeforeMalformed(documents) = documents THEN QdrantAddDocuments(st, documents, up)
    ELSE [store |-> st, ok |-> FALSE]

MixedFaissAdd ==
    \E documents \in MixedBatches :
        /\ Len(faiss.api_names) + Len(documents) <= MaxSaved
        /\ faiss' = FaissAddMixed(faiss, documents).store
        /\ index_files' = IF BeforeMalformed(documents) = documents
                          THEN FaissAddFiles(index_files, faiss, documents, "ok")
                          ELSE index_files
        /\ last' = [NoCall EXCEPT !.op = "faiss.add_documents", !.backend = FAISS,
                                  !.documents = documents,
                                  !.ret = FaissAddMixed(faiss, documents).ok]
        /\ UNCHANGED <<configVars, tasks, active_backend, fallback_reason,
                       performance_metrics, metrics, metrics_file, qdrant, calls>>

MixedQdrantAdd ==
    \E documents \in MixedBatches, up \in BOOLEAN :
        /\ qdrant' = QdrantAddMixed(qdrant, documents, up).store
        /\ last' = [NoCall EXCEPT !.op = "qdrant.add_documents", !.backend = QDRANT,
                                  !.documents = documents,
                                  !.b_ok = QdrantUsable(qdrant, up),
                                  !.ret = QdrantAddMixed(qdrant, documents, up).ok]
        /\ UNCHANGED <<configVars, index_files, tasks, active_backend, fallback_reason,
                       performance_metrics, metrics, metrics_file, faiss, calls>>

MixedNext ==
    \/ StoreFaissInitialize
    \/ StoreQdrantInitialize
    \/ MixedFaissAdd
    \/ MixedQdrantAdd

MixedSpec == StoreInit /\ [][MixedNext]_vars

\* ------------------------------------------- Backend B and its name cache
\* A QdrantStore whose service may stop answering between two requests.
CacheAdd ==
    \E documents \in Batches, up \in BOOLEAN, scroll_ok \in BOOLEAN :
        /\ qdrant' = QdrantAddScrolled(qdrant, documents, up, scroll_ok).store
        /\ last' = [NoCall EXCEPT !.op = "qdrant.add_documents", !.backend = QDRANT,
                                  !.documents = documents,
                                  !.b_ok = QdrantUsable(qdrant, up),
                                  !.ret = QdrantAddScrolled(qdrant, documents, up, scroll_ok).ok]
        /\ UNCHANGED <<configVars, index_files, tasks, active_backend, fallback_reason,
                       performance_metrics, metrics, metrics_file, faiss, calls>>

\* QdrantStore._fuzzy_search(query, top_k, None): an empty cache is re-read
\* first, then the matched names are looked up
CacheFuzzySearch ==
    \E ratio \in FuzzyRatios, top_k \in TopKs, up \in BOOLEAN :
        /\ qdrant' = [qdrant EXCEPT !.api_names_cache = FuzzyNames(qdrant, up)]
        /\ last' = [NoCall EXCEPT
                       !.op = "qdrant._fuzzy_search", !.backend = QDRANT,
                       !.b_ok = QdrantUsable(qdrant, up),
                       !.query = [NoQuery EXCEPT !.ratio = ratio, !.top_k = top_k],
                       !.fuzzy = QdrantFuzzySearch(qdrant, up, up, ratio, top_k, NoFilters)]
        /\ UNCHANGED <<configVars, index_files, tasks, active_backend, fallback_reason,
                       performance_metrics, metrics, metrics_file, faiss, calls>>

CacheNext ==
    \/ StoreQdrantInitialize
    \/ CacheAdd
    \/ CacheFuzzySearch

CacheSpec == StoreInit /\ [][CacheNext]_vars

\* ------------------------------------------------ the monitor on its own
\* A CostMonitor driven directly: events of every kind, callbacks that
\* return or raise, saves that fail, restarts on the same metrics file.
StorageSizes == {1024}

\* seconds since the metrics were last saved, a clock that has not advanced
\* included
MonitorElapsed == {0} \cup Elapsed

\* The record of the last monitor call. signal: what _check_thresholds
\* triggered; warning, fallback: the calls made to each registered callback;
\* save: how _save_metrics ended; returned: the call returned normally;
\* next: where a manager call that tracked the event goes on.
NoMonitorCall ==
    [op |-> "none", event |-> "none", elapsed |-> 0, signal |-> "none",
     warning |-> <<>>, fallback |-> <<>>, save |-> "none", returned |-> FALSE,
     next |-> "none"]

\* search, hybrid_search and add_documents after their track_event: the
\* backend call on the next line, or the except branch if the event raised
AfterTrack(returned) == IF returned THEN "backend_call" ELSE "except"

TrackEventStep(event, count, size_mb, elapsed, save) ==
    /\ calls < MaxEvents
    /\ LET r == TrackEventCall(metrics, thresholds, callbacks, metrics_file,
                               event, count, size_mb, elapsed, save)
       IN /\ metrics' = r.metrics
          /\ metrics_file' = r.file
          /\ last' = [NoMonitorCall EXCEPT
                      !.op = "track_event", !.event = event, !.elapsed = elapsed,
                      !.signal = CheckThresholds(r.metrics, thresholds),
                      !.warning = r.warning, !.fallback = r.fallback,
                      !.save = save, !.returned = r.returned,
                      !.next = AfterTrack(r.returned)]
    /\ calls' = calls + 1
    /\ UNCHANGED <<configVars, index_files, tasks, active_backend, fallback_reason,
                   performance_metrics, faiss, qdrant>>

\* the events a caller tracks: a count for SEARCH, INSERT and UPDATE, a
\* size for STORAGE
EventInputs ==
    {e \in [event : CostEvent, count : 0..MaxCount, size_mb : StorageSizes \cup {0}] :
        /\ (e.event = STORAGE <=> e.size_mb # 0)
        /\ (e.event = STORAGE => e.count = 1)}

\* track_event at any time after the last save and on a disk that may fail
MonitorTrackEvent ==
    \E e \in EventInputs, elapsed \in MonitorElapsed, save \in SaveOutcomes :
        TrackEventStep(e.event, e.count, e.size_mb, elapsed, save)

\* track_event on a disk that takes every write
CallbackTrackEvent ==
    \E e \in EventInputs, elapsed \in Elapsed :
        TrackEventStep(e.event, e.count, e.size_mb, elapsed, "ok")

\* reset_metrics
MonitorReset ==
    \E save \in SaveOutcomes :
        /\ metrics' = FreshMetrics
        /\ metrics_file' = SaveMetrics(metrics_file, FreshMetrics, save)
        /\ last' = [NoMonitorCall EXCEPT !.op = "reset_metrics", !.save = save,
                                         !.returned = TRUE]
        /\ UNCHANGED <<configVars, index_files, tasks, active_backend, fallback_reason,
                       performance_metrics, faiss, qdrant, calls>>

\* the process ends and a new CostMonitor is constructed on the same file
MonitorRestart ==
    /\ metrics' = LoadMetrics(metrics_file)
    /\ callbacks' = [warning |-> <<>>, fallback |-> <<>>]
    /\ last' = [NoMonitorCall EXCEPT !.op = "restart", !.returned = TRUE]
    /\ UNCHANGED <<qdrant_store, auto_sync, thresholds, index_files, tasks, active_backend,
                   fallback_reason, performance_metrics, metrics_file, faiss, qdrant, calls>>

AddWarningCallback ==
    \E kind \in CallbackKinds :
        /\ Len(callbacks.warning) + Len(callbacks.fallback) < MaxCallbacks
        /\ callbacks' = [callbacks EXCEPT !.warning = Append(@, kind)]
        /\ last' = [NoMonitorCall EXCEPT !.op = "add_warning_callback", !.returned = TRUE]
        /\ UNCHANGED <<qdrant_store, auto_sync, thresholds, index_files, tasks, active_backend,
                       fallback_reason, performance_metrics, metrics, metrics_file,
                       faiss, qdrant, calls>>

AddFallbackCallback ==
    \E kind \in CallbackKinds :
        /\ Len(callbacks.warning) + Len(callbacks.fallback) < MaxCallbacks
        /\ callbacks' = [callbacks EXCEPT !.fallback = Append(@, kind)]
        /\ last' = [NoMonitorCall EXCEPT !.op = "add_fallback_callback", !.returned = TRUE]
        /\ UNCHANGED <<qdrant_store, auto_sync, thresholds, index_files, tasks, active_backend,
                       fallback_reason, performance_metrics, metrics, metrics_file,
                       faiss, qdrant, calls>>

\* the monitor as constructed by __init__
MonitorInit ==
    /\ qdrant_store = "none"
    /\ auto_sync = TRUE
    /\ thresholds \in ThresholdConfigs
    /\ active_backend = FAISS
    /\ fallback_reason = NoReason
    /\ performance_metrics = [b \in Backends |-> 0]
    /\ metrics_file \in MetricsFiles
    /\ metrics = LoadMetrics(metrics_file)
    /\ callbacks = [warning |-> <<>>, fallback |-> <<>>]
    /\ tasks = NoTasks
    /\ faiss = EmptyFaiss
    /\ index_files = NoIndexFiles
    /\ qdrant = EmptyQdrant
    /\ calls = 0
    /\ last = NoMonitorCall

\* the monitor across resets and restarts, with no callback registered
MonitorNext ==
    \/ MonitorTrackEvent
    \/ MonitorReset
    \/ MonitorRestart

MonitorSpec == MonitorInit /\ [][MonitorNext]_vars

\* the monitor of one process and the callbacks registered with it
CallbackNext ==
    \/ CallbackTrackEvent
    \/ AddWarningCallback
    \/ AddFallbackCallback

CallbackSpec == MonitorInit /\ [][CallbackNext]_vars

\* ------------------------------------------- the monitor and its configuration
\* config['thresholds'] as given to CostMonitor: max_monthly_cost is given,
\* either ratio may be missing, and the ratios (in tenths) are whatever the
\* caller wrote
RatioKeys == {"warning_threshold", "fallback_threshold"}
RatioValues == {0, 8, 9, 12}
ThresholdInputs ==
    {[k \in S \cup {"max_monthly_cost"} |->
         IF k = "max_monthly_cost" THEN 10000 ELSE r[k]] :
        S \in SUBSET RatioKeys, r \in [RatioKeys -> RatioValues]}

\* the defaults of CostThresholds: 50 USD, 0.8, 0.9
DefaultThresholds ==
    [max_monthly_cost |-> 500000000, warning_threshold |-> 8, fallback_threshold |-> 9]

\* threshold_config.get(key, default)
ConfigGet(threshold_config, key) ==
    IF key \in DOMAIN threshold_config THEN threshold_config[key]
    ELSE DefaultThresholds[key]

\* CostMonitor.__init__: self.thresholds
CostThresholdsOf(threshold_config) ==
    [max_monthly_cost |-> ConfigGet(threshold_config, "max_monthly_cost"),
     warning_threshold |-> ConfigGet(threshold_config, "warning_threshold"),
     fallback_threshold |-> ConfigGet(threshold_config, "fallback_threshold")]

\* a CostMonitor is constructed from a configuration, on the same file
MonitorConstruct ==
    \E threshold_config \in ThresholdInputs :
        /\ thresholds' = CostThresholdsOf(threshold_config)
        /\ metrics' = LoadMetrics(metrics_file)
        /\ callbacks' = [warning |-> <<>>, fallback |-> <<>>]
        /\ last' = [NoMonitorCall EXCEPT !.op = "construct", !.returned = TRUE]
        /\ UNCHANGED <<qdrant_store, auto_sync, index_files, tasks, active_backend,
                       fallback_reason, performance_metrics, metrics_file, faiss,
                       qdrant, calls>>

ConfigInit ==
    /\ qdrant_store = "none"
    /\ auto_sync = TRUE
    /\ thresholds \in {CostThresholdsOf(c) : c \in ThresholdInputs}
    /\ active_backend = FAISS
    /\ fallback_reason = NoReason
    /\ performance_metrics = [b \in Backends |-> 0]
    /\ metrics_file \in MetricsFiles
    /\ metrics = LoadMetrics(metrics_file)
    /\ callbacks = [warning |-> <<>>, fallback |-> <<>>]
    /\ tasks = NoTasks
    /\ faiss = EmptyFaiss
    /\ index_files = NoIndexFiles
    /\ qdrant = EmptyQdrant
    /\ calls = 0
    /\ last = NoMonitorCall

ConfigNext ==
    \/ MonitorConstruct
    \/ CallbackTrackEvent

ConfigSpec == ConfigInit /\ [][ConfigNext]_vars

\* ------------------------------------------------------ concurrent callers
\* Callers on several threads. A search or hybrid_search runs in steps, and
\* between two steps of one caller the other callers may take theirs:
\* the dispatch, the counting of the cost event, the serialisation of the
\* metrics, the write of the file, the backend call with what follows it.
\* initialize and force_backend are taken in one step.
ConcFile == CHOOSE f \in MetricsFiles : f.state = "ok"

\* what the backend calls of a search can do: an input the call does not
\* read is held at one value
ReturnInputs(store) ==
    {i \in [raiseB : BOOLEAN, raiseA : BOOLEAN, up : BOOLEAN] :
        /\ (store # QDRANT => ~i.raiseB /\ i.up)
        /\ (store = QDRANT => (i.raiseB => i.up) /\ (~i.raiseB => ~i.raiseA))}

\* search and hybrid_search up to the test of active_backend
BeginSearch(t, kind) ==
    /\ tasks[t].pc = "idle"
    /\ calls < MaxSearchCalls
    /\ tasks' = [tasks EXCEPT ![t] =
            [@ EXCEPT !.pc = IF active_backend = QDRANT THEN "track" ELSE "call",
                      !.kind = kind,
                      !.start = active_backend,
                      !.store = GetActiveStore(active_backend, qdrant_store)]]
    /\ calls' = calls + 1
    /\ UNCHANGED <<configVars, index_files, active_backend, fallback_reason, performance_metrics,
                   metrics, metrics_file, faiss, qdrant, last>>

\* track_event up to _save_metrics: the count, the estimate, the thresholds
\* and the fallback callback
TrackCount(t, elapsed) ==
    /\ tasks[t].pc = "track"
    /\ LET r == TrackEvent(metrics, thresholds, SEARCH, 1, 0, elapsed)
           cb == IF r.signal = "fallback" THEN OnCostFallback(active_backend, fallback_reason)
                 ELSE [active_backend |-> active_backend, fallback_reason |-> fallback_reason]
       IN /\ metrics' = r.metrics
          /\ active_backend' = cb.active_backend
          /\ fallback_reason' = cb.fallback_reason
    /\ tasks' = [tasks EXCEPT ![t].pc = "dump"]
    /\ UNCHANGED <<configVars, index_files, performance_metrics, metrics_file, faiss, qdrant, calls, last>>

\* _save_metrics: to_dict() is evaluated
DumpMetrics(t) ==
    /\ tasks[t].pc = "dump"
    /\ tasks' = [tasks EXCEPT ![t].pc = "write", ![t].snapshot = ToDict(metrics)]
    /\ UNCHANGED <<configVars, index_files, active_backend, fallback_reason, performance_metrics,
                   metrics, metrics_file, faiss, qdrant, calls, last>>

\* _save_metrics: the document reaches the file
WriteFile(t) ==
    /\ tasks[t].pc = "write"
    /\ metrics_file' = [state |-> "ok", data |-> tasks[t].snapshot]
    /\ tasks' = [tasks EXCEPT ![t].pc = "call"]
    /\ UNCHANGED <<configVars, index_files, active_backend, fallback_reason, performance_metrics,
                   metrics, faiss, qdrant, calls, last>>

\* the backend call of search and hybrid_search and everything after it
ReturnSearch(t, in) ==
    /\ tasks[t].pc = "call"
    /\ LET kind == tasks[t].kind
           store == tasks[t].store
           raised == IF store = QDRANT THEN in.raiseB ELSE in.raiseA
           fb == SearchFallback(kind, active_backend, fallback_reason,
                                performance_metrics, faiss, in.raiseA)
       IN /\ performance_metrics' =
                IF raised THEN fb.pm
                ELSE UpdatePerformanceMetrics(performance_metrics, active_backend)
          /\ last' = [NoCall EXCEPT
                      !.op = kind, !.start = tasks[t].start, !.raised = raised,
                      !.a_raised = in.raiseA,
                      !.b_ok = (store = QDRANT /\ ~raised /\ QdrantUsable(qdrant, in.up)),
                      !.retried = IF raised THEN fb.retried ELSE FALSE,
                      !.backend = IF raised THEN fb.backend ELSE store,
                      !.results = IF raised THEN fb.results
                                  ELSE StoreSearch(kind, store, faiss, qdrant, in.up),
                      !.ret = ~raised \/ fb.backend # "none"]
    /\ tasks' = [tasks EXCEPT ![t] =
            [IdleTask EXCEPT !.metered = tasks[t].metered +
                                         (IF tasks[t].start = QDRANT THEN 1 ELSE 0)]]
    /\ UNCHANGED <<configVars, index_files, active_backend, fallback_reason, metrics, metrics_file,
                   faiss, qdrant, calls>>

ConcBegin == \E t \in Tasks, kind \in SearchOps : BeginSearch(t, kind)

ConcTrack == \E t \in Tasks, elapsed \in Elapsed : TrackCount(t, elapsed)

ConcDump == \E t \in Tasks : DumpMetrics(t)

ConcWrite == \E t \in Tasks : WriteFile(t)

ConcReturn == \E t \in Tasks : \E in \in ReturnInputs(tasks[t].store) : ReturnSearch(t, in)

\* a manager constructed on the metrics file of an earlier run
ConcInit ==
    /\ qdrant_store = "QdrantStore"
    /\ auto_sync = TRUE
    /\ thresholds \in ThresholdConfigs
    /\ active_backend = FAISS
    /\ fallback_reason = NoReason
    /\ performance_metrics = [b \in Backends |-> 0]
    /\ metrics_file = ConcFile
    /\ metrics = LoadMetrics(metrics_file)
    /\ callbacks = ManagerCallbacks
    /\ tasks = NoTasks
    /\ faiss = EmptyFaiss
    /\ index_files = NoIndexFiles
    /\ qdrant = EmptyQdrant
    /\ calls = 0
    /\ last = NoCall

ConcNext ==
    \/ Initialize
    \/ ForceBackend
    \/ ConcBegin
    \/ ConcTrack
    \/ ConcDump
    \/ ConcWrite
    \/ ConcReturn

ConcSpec == ConcInit /\ [][ConcNext]_vars

\* ------------------------------------------------------------ properties
\* the cost event tracked by the last call reached the fallback threshold
FallbackSignalled ==
    /\ last.op \in DispatchOps
    /\ last.start = QDRANT
    /\ RatioAtLeast(metrics, thresholds, thresholds.fallback_threshold)

BackendState == <<active_backend, fallback_reason>>

\* C1: a search, hybrid_search or add_documents whose tracked cost event
\* brings the cost ratio to the fallback threshold while Qdrant is active
\* leaves FAISS active with reason COST_THRESHOLD, and from FAISS with that
\* reason no search, hybrid_search or add_documents moves the manager away.
C1_CostFallbackSticks ==
    [][last'.op \in DispatchOps =>
        /\ (FallbackSignalled' =>
                active_backend' = FAISS /\ fallback_reason' = COST_THRESHOLD)
        /\ (active_backend = FAISS /\ fallback_reason = COST_THRESHOLD =>
                active_backend' = FAISS /\ fallback_reason' = COST_THRESHOLD)]_vars

\* a call served locally after the cost fallback has happened
C1_Witness ==
    /\ last.op \in DispatchOps
    /\ last.start = FAISS
    /\ active_backend = FAISS
    /\ fallback_reason = COST_THRESHOLD
    /\ RatioAtLeast(metrics, thresholds, thresholds.fallback_threshold)

\* C2: a search or hybrid_search dispatched to Qdrant whose Qdrant call
\* raises is retried on FAISS and, unless FAISS raises too, returns what
\* FAISS finds.
C2_RetryOnBackendBError ==
    (last.op \in SearchOps /\ last.start = QDRANT /\ last.raised) =>
        /\ last.retried
        /\ (~last.a_raised =>
                /\ last.backend = FAISS
                /\ last.results = StoreSearch(last.op, FAISS, faiss, qdrant, FALSE))

\* C3: a client error inside Qdrant's search or hybrid_search makes the
\* manager retry on FAISS; the caller is not handed Qdrant's empty list.
C3_ClientErrorReachesManager ==
    (last.op \in SearchOps /\ last.start = QDRANT /\ ~last.raised /\ ~last.b_ok) =>
        (last.retried /\ last.backend # QDRANT)

\* C4: with auto_sync on and FAISS accepting writes, an add_documents that
\* starts on Qdrant and returns True grows FAISS's total_vectors by the
\* size of the batch.
C4_SyncWritesBackendA ==
    [][(/\ last'.op = "add_documents"
        /\ last'.start = QDRANT
        /\ last'.ret
        /\ auto_sync
        /\ faiss.initialized
        /\ ~last'.a_raised) =>
            FaissTotalVectors(faiss') = FaissTotalVectors(faiss) + Len(last'.documents)]_vars

\* C5: after an initialize() that returned True, Qdrant is active exactly
\* when Qdrant initialized and the cost ratio is below the fallback
\* threshold; otherwise FAISS is.
C5_InitializeChoosesBackend ==
    (last.op = "initialize" /\ last.ret) =>
        /\ (active_backend = QDRANT <=>
                (last.b_ok /\ ~RatioAtLeast(metrics, thresholds, thresholds.fallback_threshold)))
        /\ active_backend \in Backends

\* initialize() found Qdrant up and left FAISS active because of the cost
C5_Witness ==
    /\ last.op = "initialize"
    /\ last.ret
    /\ last.b_ok
    /\ active_backend = FAISS

\* C6: an initialize() that leaves FAISS active sets the reason:
\* QDRANT_UNAVAILABLE without a working Qdrant, COST_THRESHOLD otherwise.
C6_InitializeSetsReason ==
    (last.op = "initialize" /\ last.ret /\ active_backend = FAISS) =>
        fallback_reason = IF last.b_ok THEN COST_THRESHOLD ELSE QDRANT_UNAVAILABLE

\* C7: force_backend(QDRANT) with an unhealthy Qdrant returns False and
\* leaves active_backend and fallback_reason alone.
C7_ForceRequiresHealthy ==
    [][(last'.op = "force_backend" /\ last'.backend = QDRANT /\ ~last'.b_ok) =>
        (~last'.ret /\ BackendState' = BackendState)]_vars

\* C8: active_backend and fallback_reason change only in initialize, in
\* force_backend, and in a dispatched call whose cost event signalled the
\* fallback; a backend call that raises leaves both as they were.
C8_ErrorPathsKeepBackendState ==
    [][BackendState' # BackendState =>
        \/ last'.op \in {"initialize", "force_backend"}
        \/ FallbackSignalled']_vars

\* a search that failed on Qdrant and was retried, with Qdrant still active
C8_Witness ==
    /\ last.op \in SearchOps
    /\ last.start = QDRANT
    /\ last.raised
    /\ last.retried
    /\ active_backend = QDRANT

\* ids of a batch, and the name the batch leaves an id with
BatchIds(documents) == {documents[k].id : k \in 1..Len(documents)}

RECURSIVE LastName(_, _)
LastName(documents, id) ==
    IF documents[Len(documents)].id = id THEN documents[Len(documents)].full_name
    ELSE LastName(SubSeq(documents, 1, Len(documents) - 1), id)

FaissEntries(st, id) == Cardinality({p \in 1..Len(st.index_to_id) : st.index_to_id[p] = id})

\* C9: re-adding documents whose ids are already indexed replaces them: on
\* either store each id then has one entry, with the content of the re-add,
\* and total_vectors is what it was.
C9_ReAddReplaces ==
    [][/\ (/\ last'.op = "faiss.add_documents"
           /\ last'.ret
           /\ \A id \in BatchIds(last'.documents) : FaissEntries(faiss, id) > 0) =>
               /\ FaissTotalVectors(faiss') = FaissTotalVectors(faiss)
               /\ \A id \in BatchIds(last'.documents) :
                    /\ FaissEntries(faiss', id) = 1
                    /\ faiss'.metadata_store[id] = LastName(last'.documents, id)
       /\ (/\ last'.op = "qdrant.add_documents"
           /\ last'.ret
           /\ \A id \in BatchIds(last'.documents) : qdrant.collection[id] # Absent) =>
               /\ QdrantTotalVectors(qdrant') = QdrantTotalVectors(qdrant)
               /\ \A id \in BatchIds(last'.documents) :
                    qdrant'.collection[id] = LastName(last'.documents, id)]_vars

\* C10: a search or hybrid_search begun with Qdrant active adds 1 to
\* total_searches, an add_documents begun with Qdrant active adds the batch
\* size to total_inserts, neither touches another counter, and a call begun
\* with FAISS active leaves the metrics as they are.
C10_OnlyBackendBMetered ==
    [][last'.op \in DispatchOps =>
        IF last'.start = QDRANT
        THEN /\ metrics'.total_searches =
                    metrics.total_searches + (IF last'.op \in SearchOps THEN 1 ELSE 0)
             /\ metrics'.total_inserts =
                    metrics.total_inserts +
                    (IF last'.op = "add_documents" THEN Len(last'.documents) ELSE 0)
             /\ metrics'.total_updates = metrics.total_updates
             /\ metrics'.storage_mb = metrics.storage_mb
        ELSE metrics' = metrics]_vars

\* a metered insert and, before it, nothing to tell it from an unmetered one
C10_Witness ==
    /\ last.op = "add_documents"
    /\ last.start = QDRANT
    /\ Len(last.documents) = 1
    /\ metrics.total_inserts = 1

\* C13: every completed search or hybrid_search has updated the performance
\* metrics once: the two backends' search_count add up to the number of
\* calls made, failed calls included.
C13_EverySearchCounted ==
    performance_metrics[FAISS] + performance_metrics[QDRANT] = calls

\* C14: a search or hybrid_search that some backend answered adds one to the
\* search_count of that backend and leaves the other backend's count alone.
C14_MetricUnderAnsweringBackend ==
    [][(last'.op \in SearchOps /\ last'.backend \in Backends) =>
        performance_metrics' =
            [performance_metrics EXCEPT ![last'.backend] = @ + 1]]_vars

\* what the caller of search or hybrid_search receives: the list returned
Returned == last.results

\* C20: a search or hybrid_search that failed on Qdrant and then on FAISS
\* hands its caller something other than the empty list of a search that
\* matched nothing.
C20_BothFailedIsExplicit ==
    (last.op \in SearchOps /\ last.raised /\ last.retried /\ last.a_raised) =>
        Returned # <<>>

\* the callbacks the thresholds select after the last track_event, and the
\* calls that were made to them
TriggeredCallbacks ==
    IF RatioAtLeast(metrics, thresholds, thresholds.fallback_threshold) THEN callbacks.fallback
    ELSE IF RatioAtLeast(metrics, thresholds, thresholds.warning_threshold) THEN callbacks.warning
    ELSE <<>>

TriggeredCalls ==
    IF RatioAtLeast(metrics, thresholds, thresholds.fallback_threshold) THEN last.fallback
    ELSE IF RatioAtLeast(metrics, thresholds, thresholds.warning_threshold) THEN last.warning
    ELSE <<>>

CalledTimes(invoked, cbs, n) ==
    /\ Len(invoked) = Len(cbs)
    /\ \A k \in 1..Len(invoked) : invoked[k] = n

\* C11: after a track_event, with the cost ratio at or above the fallback
\* threshold every fallback callback has been called once and no warning
\* callback; with the ratio from the warning threshold up to the fallback
\* threshold every warning callback once and no fallback callback; below
\* the warning threshold no callback at all.
C11_ThresholdsSelectCallbacks ==
    last.op = "track_event" =>
        IF RatioAtLeast(metrics, thresholds, thresholds.fallback_threshold)
        THEN /\ CalledTimes(last.fallback, callbacks.fallback, 1)
             /\ CalledTimes(last.warning, callbacks.warning, 0)
        ELSE IF RatioAtLeast(metrics, thresholds, thresholds.warning_threshold)
        THEN /\ CalledTimes(last.warning, callbacks.warning, 1)
             /\ CalledTimes(last.fallback, callbacks.fallback, 0)
        ELSE /\ CalledTimes(last.warning, callbacks.warning, 0)
             /\ CalledTimes(last.fallback, callbacks.fallback, 0)

\* a track_event in the warning zone with a callback of each kind registered
C11_Witness ==
    /\ last.op = "track_event"
    /\ RatioAtLeast(metrics, thresholds, thresholds.warning_threshold)
    /\ ~RatioAtLeast(metrics, thresholds, thresholds.fallback_threshold)
    /\ last.warning = <<1>>
    /\ last.fallback = <<0>>

\* C12: when a callback triggered by a track_event raises, every triggered
\* callback has still been called once, the metrics have been written to
\* the file, track_event has returned normally, and the manager call that
\* tracked the event goes on to its backend call.
C12_CallbackErrorsContained ==
    (/\ last.op = "track_event"
     /\ \E k \in 1..Len(TriggeredCallbacks) : TriggeredCallbacks[k] = "raises") =>
        /\ CalledTimes(TriggeredCalls, TriggeredCallbacks, 1)
        /\ last.returned
        /\ (last.save = "ok" => metrics_file = [state |-> "ok", data |-> ToDict(metrics)])
        /\ last.next = "backend_call"

\* a raising callback followed by another one, both called, the event saved
C12_Witness ==
    /\ last.op = "track_event"
    /\ TriggeredCallbacks = <<"raises", "returns">>
    /\ TriggeredCalls = <<1, 1>>
    /\ last.returned
    /\ metrics_file = [state |-> "ok", data |-> ToDict(metrics)]

\* two track_event(SEARCH, n) calls, one right after the other
ConsecutiveSearchEvents ==
    /\ last.op = "track_event"
    /\ last.event = SEARCH
    /\ last'.op = "track_event"
    /\ last'.event = SEARCH
    /\ calls' = calls + 1

\* C17: from one track_event(SEARCH, n) to the next, estimated_monthly_cost
\* does not decrease, whatever time passed between the two.
C17_CostNeverDecreases ==
    [][ConsecutiveSearchEvents =>
        metrics'.estimated_monthly_cost >= metrics.estimated_monthly_cost]_vars

\* C17 as amended: from one track_event(SEARCH, n) to the next,
\* estimated_monthly_cost does not decrease provided the usage multiplier
\* of the later call is not below that of the earlier call.
C17_CostMonotoneAtEqualRate ==
    [][(/\ ConsecutiveSearchEvents
        /\ UsageMultiplier(last'.elapsed) >= UsageMultiplier(last.elapsed)) =>
            metrics'.estimated_monthly_cost >= metrics.estimated_monthly_cost]_vars

\* two searches tracked at the same rate, the estimate grown with the count
C17_Witness ==
    /\ last.op = "track_event"
    /\ last.event = SEARCH
    /\ last.elapsed = 1800
    /\ calls = 2
    /\ metrics.total_searches = 2
    /\ metrics.estimated_monthly_cost = 2 * SearchCostPerOp * UsageMultiplier(1800)

Counters(m) == <<m.total_searches, m.total_inserts, m.total_updates>>

\* C18: apart from reset_metrics, no step lowers total_searches,
\* total_inserts or total_updates: not a track_event, not a restart.
C18_CountersOnlyResetExplicitly ==
    [][last'.op # "reset_metrics" =>
        \A k \in 1..3 : Counters(metrics')[k] >= Counters(metrics)[k]]_vars

\* C19: a monitor constructed on the metrics file right after a tracked
\* event starts with the counters and the storage value the previous
\* monitor held in memory.
C19_MetricsSurviveRestart ==
    [][(last.op = "track_event" /\ last'.op = "restart") =>
        /\ Counters(metrics') = Counters(metrics)
        /\ metrics'.storage_mb = metrics.storage_mb]_vars

\* C15: a search dispatched to Qdrant whose Qdrant call raises after
\* active_backend was changed under it is still retried on FAISS and, unless
\* FAISS raises too, returns what FAISS finds.
C15_InFlightSearchNotStranded ==
    [][\A t \in Tasks :
        (/\ tasks[t].pc = "call"
         /\ tasks'[t].pc = "idle"
         /\ tasks[t].store = QDRANT
         /\ active_backend # tasks[t].start
         /\ last'.raised) =>
            /\ last'.retried
            /\ (~last'.a_raised =>
                    last'.results = StoreSearch(tasks[t].kind, FAISS, faiss, qdrant, FALSE))]_vars

AllIdle == \A t \in Tasks : tasks[t].pc = "idle"

RECURSIVE MeteredBy(_)
MeteredBy(n) == IF n = 0 THEN 0 ELSE tasks[n].metered + MeteredBy(n - 1)

\* C16: once every search in flight has completed, total_searches has
\* grown by the number of searches dispatched to Qdrant and the metrics
\* file holds the counters that are in memory.
C16_NoCostIncrementLost ==
    AllIdle =>
        /\ metrics.total_searches =
                LoadMetrics(ConcFile).total_searches + MeteredBy(MaxTasks)
        /\ Counters(LoadMetrics(metrics_file)) = Counters(metrics)

\* C21: no exception leaves search, hybrid_search or add_documents, whatever
\* a backend call or the cost monitor raised during the call (and whether
\* or not a backend is left to answer).
C21_DispatchNeverRaises ==
    last.op \in DispatchOps => ~last.thrown

\* a search whose track_event raised, answered by the FAISS retry
C21_Witness ==
    /\ last.op = "search"
    /\ last.m_raised
    /\ last.retried
    /\ last.backend = FAISS
    /\ ~last.thrown

\* C22: an add_documents dispatched to Qdrant whose Qdrant call raises is
\* retried on FAISS: FAISS receives the batch and its result is returned.
C22_AddRetriedOnBackendA ==
    [][(/\ last'.op = "add_documents"
        /\ last'.start = QDRANT
        /\ last'.raised
        /\ ~last'.a_raised) =>
            /\ faiss' = FaissAddDocuments(faiss, last'.documents).store
            /\ last'.ret = FaissAddDocuments(faiss, last'.documents).ok]_vars

\* C23: when the sync write of an add_documents fails, the call still
\* returns True (the active store's result), throws nothing, leaves in the
\* store it was dispatched to exactly what that store's add put there, and
\* leaves active_backend where the cost tracking of the call put it.
C23_SyncFailureIsHarmless ==
    [][(/\ last'.op = "add_documents"
        /\ last'.sync # "none"
        /\ last'.sync_failed) =>
            /\ last'.ret
            /\ ~last'.thrown
            /\ IF last'.backend = QDRANT
               THEN qdrant' = QdrantAddDocuments(qdrant, last'.documents, TRUE).store
               ELSE faiss' = FaissAddDocuments(faiss, last'.documents).store
            /\ active_backend' = IF last'.signal = "fallback" THEN FAISS
                                  ELSE active_backend]_vars

\* a batch added to Qdrant whose sync to FAISS failed
C23_Witness ==
    /\ last.op = "add_documents"
    /\ last.backend = QDRANT
    /\ last.sync = FAISS
    /\ last.sync_failed
    /\ last.ret
    /\ qdrant.collection["d1"] # Absent
    /\ Len(faiss.index) = 0

\* C24: health_check reports 'healthy' when the active backend is healthy,
\* 'degraded' when it is not and the other backend is, 'unhealthy' when
\* neither is, whichever backend is active.
C24_HealthStatus ==
    last.op = "health_check" =>
        LET active_healthy == IF last.start = QDRANT THEN last.b_healthy ELSE last.a_healthy
            other_healthy == IF last.start = QDRANT THEN last.a_healthy ELSE last.b_healthy
        IN last.status = IF active_healthy THEN "healthy"
                         ELSE IF other_healthy THEN "degraded"
                         ELSE "unhealthy"

\* what a new FAISSStore holds after initialize() when it has read all of
\* index.bin, metadata.json and mappings.pkl
CompleteState(files) ==
    [initialized |-> TRUE,
     index |-> files.index.data,
     metadata_store |-> files.metadata.data,
     id_to_index |-> files.mappings.data.id_to_index,
     index_to_id |-> files.mappings.data.index_to_id,
     api_names |-> files.mappings.data.api_names,
     api_name_to_id |-> files.mappings.data.api_name_to_id]

AllFilesRead(files) ==
    files.index.state = "ok" /\ files.metadata.state = "ok" /\ files.mappings.state = "ok"

\* C29: when add_documents of Backend A returns True for a batch, the files
\* hold the store with the batch: a new FAISSStore initialized on the
\* directory holds what the store holds.
C29_AddedMeansSaved ==
    [][(/\ last'.op = "faiss.add_documents"
        /\ last'.documents # <<>>
        /\ last'.ret) =>
            /\ AllFilesRead(index_files')
            /\ CompleteState(index_files') = faiss']_vars

\* C30: after initialize() a new FAISSStore holds the complete state of the
\* three files or, when one of them is missing or unreadable, nothing: an
\* empty index, an empty metadata store, empty mappings and no names.
C30_LoadedOrEmpty ==
    [][(last'.op = "faiss.initialize" /\ last'.ret) =>
        faiss' = IF AllFilesRead(index_files') THEN CompleteState(index_files')
                 ELSE [EmptyFaiss EXCEPT !.initialized = TRUE]]_vars

\* ---------------------------------------------------------- scored queries
QueryOps == {"store.search", "store.hybrid_search"}

\* the name under which the queried store holds document id, Absent if none
StoredName(backend, id) ==
    IF backend = FAISS THEN faiss.metadata_store[id] ELSE qdrant.collection[id]

\* the documents the queried store can return
Searchable(backend) ==
    IF backend = FAISS
    THEN {faiss.index_to_id[p] : p \in 1..Len(faiss.index_to_id)}
    ELSE {i \in DocIds : qdrant.collection[i] # Absent}

\* the number of vectors the engine ranks
VectorCount(backend) ==
    IF backend = FAISS THEN Len(faiss.index) ELSE Cardinality(Searchable(QDRANT))

\* the queried store answered the engine call
Answered(backend) == IF backend = FAISS THEN faiss.initialized ELSE last.b_ok

\* the closed-world match on a document as it was added: documents carry
\* 'id' and 'full_name', so any other field is absent
FilterMatches(name, filters) ==
    /\ name # Absent
    /\ filters.key = "full_name"
    /\ IF filters.is_list THEN name \in filters.values ELSE name = filters.value

HitIds(hits) == {hits[k].id : k \in 1..Len(hits)}

\* C25: a filtered search returns only documents that have the filter field
\* with the filter value or one of the listed values, and, when top_k covers
\* the store, returns every such document, on Backend B as on Backend A.
C25_SameClosedWorldFilter ==
    (last.op = "store.search" /\ last.query.filters # NoFilters) =>
        LET matching == {i \in Searchable(last.backend) :
                            FilterMatches(StoredName(last.backend, i), last.query.filters)}
        IN /\ HitIds(last.hits) \subseteq matching
           /\ (Answered(last.backend) /\ last.query.top_k >= VectorCount(last.backend))
                  => matching \subseteq HitIds(last.hits)

NonIncreasing(hits) ==
    \A k \in 1..Len(hits) - 1 : hits[k].score >= hits[k + 1].score

\* C26: the scores of a returned list never increase along it, and the
\* document closest to the query that Backend B returns is the first of the
\* list and has the highest score.
C26_BestFirst ==
    last.op \in QueryOps =>
        /\ NonIncreasing(last.hits)
        /\ (last.op = "store.search" /\ last.backend = QDRANT) =>
              \A k \in 1..Len(last.hits) :
                 /\ last.query.similarity[qdrant.collection[last.hits[1].id]]
                      >= last.query.similarity[qdrant.collection[last.hits[k].id]]
                 /\ last.hits[1].score >= last.hits[k].score

\* C27: every returned score lies in [0,1], whatever the weights.
C27_ScoresInUnitInterval ==
    last.op \in QueryOps =>
        \A k \in 1..Len(last.hits) : last.hits[k].score >= 0 /\ last.hits[k].score <= One

\* the component scores of id in a result list, 0 for an id the list lacks
Components(results, id) ==
    LET found == {results[k].score : k \in {j \in 1..Len(results) : results[j].id = id}}
    IN IF found = {} THEN {0} ELSE found

\* the largest weighted sum over the entries of id in the two lists
CombinedScore(semantic, fuzzy, weights, id) ==
    LET sums == {(s * weights.semantic_weight + f * weights.fuzzy_weight) \div 10 :
                    s \in Components(semantic, id), f \in Components(fuzzy, id)}
    IN CHOOSE x \in sums : \A y \in sums : x >= y

\* C28: hybrid_search returns each id once, scored by the weighted sum of
\* its semantic and fuzzy scores (0 for a missing one, the largest sum for
\* an id found more than once), best first, the best top_k of them.
C28_HybridWeightedSum ==
    last.op = "store.hybrid_search" =>
        LET hits == last.hits
            ids == HitIds(last.semantic) \cup HitIds(last.fuzzy)
            Score(i) == CombinedScore(last.semantic, last.fuzzy, last.query.weights, i)
        IN /\ \A j, k \in 1..Len(hits) : hits[j].id = hits[k].id => j = k
           /\ \A k \in 1..Len(hits) : hits[k].id \in ids /\ hits[k].score = Score(hits[k].id)
           /\ NonIncreasing(hits)
           /\ Len(hits) = Min(last.query.top_k, Cardinality(ids))
           /\ \A i \in ids \ HitIds(hits) : \A k \in 1..Len(hits) : hits[k].score >= Score(i)

\* ------------------------------------------------------ backends coming up
\* C31: with Backend B configured, initialize() returns True although one
\* of the two backends did not come up, and the manager then dispatches to
\* the other one.
C31_OneFailureNotFatal ==
    (last.op = "initialize" /\ qdrant_store # "none") =>
        /\ last.ret
        /\ (last.raised \/ ~last.b_ok) => active_backend = FAISS

\* the documents of a batch that are well-formed, and those that are not
WellFormed(documents) == {documents[k] : k \in {j \in 1..Len(documents) : documents[j].well_formed}}
Rejected(documents) == {documents[k] : k \in {j \in 1..Len(documents) : ~documents[j].well_formed}}

\* C32: when a store that can take the batch is given one with a malformed
\* document, every other document of the batch is indexed by the call.
C32_MalformedRejectedAlone ==
    [][(/\ last'.op \in {"faiss.add_documents", "qdrant.add_documents"}
        /\ Rejected(last'.documents) # {}
        /\ IF last'.backend = FAISS THEN faiss.initialized ELSE last'.b_ok) =>
            \A d \in WellFormed(last'.documents) :
                IF last'.backend = FAISS
                THEN \E p \in Len(faiss.index) + 1..Len(faiss'.index) :
                        faiss'.index_to_id[p] = d.id
                ELSE qdrant'.collection[d.id] # Absent]_vars

\* C33: the thresholds a CostMonitor holds satisfy
\* 0 < warning_threshold < fallback_threshold <= 1 (ratios in tenths).
C33_ThresholdsOrdered ==
    /\ 0 < thresholds.warning_threshold
    /\ thresholds.warning_threshold < thresholds.fallback_threshold
    /\ thresholds.fallback_threshold <= 10

\* the query is exactly this name: the only name with ratio 100, and no
\* text is closer to the query than the text of a document bearing it
ExactName(query, name) ==
    /\ name # Absent
    /\ query.ratio[name] = 100
    /\ \A n \in Names \ {name} :
          query.ratio[n] < 100 /\ query.similarity[n] <= query.similarity[name]

\* C34: an unfiltered hybrid_search for the exact name of a stored document,
\* with top_k covering the store, returns that document with a score no
\* other returned document exceeds.
C34_ExactNameRanksFirst ==
    (/\ last.op = "store.hybrid_search"
     /\ Answered(last.backend)
     /\ last.query.filters = NoFilters
     /\ last.query.top_k >= VectorCount(last.backend)) =>
        \A d \in Searchable(last.backend) :
            ExactName(last.query, StoredName(last.backend, d)) =>
                \E k \in 1..Len(last.hits) :
                    /\ last.hits[k].id = d
                    /\ \A j \in 1..Len(last.hits) : last.hits[k].score >= last.hits[j].score

\* C35: while Backend B is the active backend, fallback_reason is neither
\* COST_THRESHOLD nor QDRANT_UNAVAILABLE.
C35_ActiveRemoteHasNoFallbackReason ==
    active_backend = QDRANT => fallback_reason \notin {COST_THRESHOLD, QDRANT_UNAVAILABLE}

\* C36: while Backend B is the active backend, its store exists and its
\* initialize() has returned True.
C36_ActiveRemoteIsInitialized ==
    active_backend = QDRANT =>
        qdrant_store # "none" /\ qdrant.client /\ qdrant.collection_exists

\* id_to_index and index_to_id are inverse to each other on the positions
\* 0..ntotal-1 (position p of the code is element p+1 of the sequences)
InverseMappings(st) ==
    /\ Len(st.index_to_id) = Len(st.index)
    /\ \A p \in 1..Len(st.index_to_id) : st.id_to_index[st.index_to_id[p]] = p - 1
    /\ \A i \in DocIds :
          st.id_to_index[i] # -1 =>
              /\ st.id_to_index[i] + 1 \in 1..Len(st.index_to_id)
              /\ st.index_to_id[st.id_to_index[i] + 1] = i

\* C37: on Backend A the two id mappings are inverse bijections between the
\* indexed ids and the index positions, and a search returns no id twice.
C37_IdMappingsBijective ==
    /\ InverseMappings(faiss)
    /\ (last.op = "store.search" /\ last.backend = FAISS) =>
          \A j, k \in 1..Len(last.hits) : last.hits[j].id = last.hits[k].id => j = k

\* C38: an add_documents of Backend A that returns False leaves the store
\* as it was.
C38_FailedAddChangesNothing ==
    [][(last'.op = "faiss.add_documents" /\ ~last'.ret) => faiss' = faiss]_vars

\* the name list holds the names the indexed documents bear, each once, and
\* each name leads to a document bearing it
NamesExact(st) ==
    LET indexed == {st.index_to_id[p] : p \in 1..Len(st.index_to_id)}
    IN /\ {st.api_names[k] : k \in 1..Len(st.api_names)} = {st.metadata_store[i] : i \in indexed}
       /\ \A j, k \in 1..Len(st.api_names) : st.api_names[j] = st.api_names[k] => j = k
       /\ \A k \in 1..Len(st.api_names) :
             /\ st.api_name_to_id[st.api_names[k]] # Absent
             /\ st.metadata_store[st.api_name_to_id[st.api_names[k]]] = st.api_names[k]

\* C39: an add_documents of Backend A that returns True on a store whose
\* name list is exact leaves it exact.
C39_NameListExact ==
    [][(last'.op = "faiss.add_documents" /\ last'.ret /\ NamesExact(faiss)) =>
        NamesExact(faiss')]_vars

\* every name stored in the collection is in the cache
CacheCovers(st) ==
    \A i \in DocIds :
        st.collection[i] # Absent =>
            \E k \in 1..Len(st.api_names_cache) : st.api_names_cache[k] = st.collection[i]

\* C40: after an add_documents of Backend B that returns True the name cache
\* holds the name of every document of the collection, and a fuzzy search
\* re-reads the cache only when it is empty.
C40_CacheCoversCollection ==
    [][/\ (last'.op = "qdrant.add_documents" /\ last'.ret) =>
            CacheCovers(qdrant')
       /\ (last'.op = "qdrant._fuzzy_search" /\ qdrant.api_names_cache # <<>>) =>
            qdrant'.api_names_cache = qdrant.api_names_cache]_vars

====
